---- MODULE Spec2Model ----
(***************************************************************************)
(* Hover Highlighter: the injected toggle script (injected.js) and its     *)
(* pointer-driven word and line resolution over a laid-out content tree.   *)
(*                                                                         *)
(* A document is a record of sequences indexed by node id.  Node ids are   *)
(* assigned in document (pre-)order, node 1 is document.body, and 0 stands *)
(* for the Document node that holds both boundaries of a fresh Range.      *)
(* A text node's content is a sequence of characters, each carrying the    *)
(* client rectangles the layout engine reports for it.                     *)
(***************************************************************************)
EXTENDS Integers, Sequences, FiniteSets, TLC

\* ------------------------------------------------------------------ bounds

\* Pointer coordinates of the synthetic pointer events: 0..MaxX, 0..MaxY.
MaxX == 3
MaxY == 4
\* Number of times the injected script takes its activation branch.
MaxClosures == 2
\* Number of clicks on the toolbar button of the tab.
MaxClicks == 3

\* --------------------------------------------------------------- constants

DocumentNode == 0
Null == -1
NoCaret == [node |-> Null, offset |-> 0]

CSS_HIGHLIGHT_WORD_KEY == "hover-highlighter_word"
CSS_HIGHLIGHT_LINE_KEY == "hover-highlighter_line"
MAX_LINES_SPANNED_CHECKS == 105

\* const value = ...: Body evaluated with value bound to its argument.
Bind(value, Body(_)) == Body(value)

\* while (true) { ... }: Step applied to the loop's state until the state is
\* done, at most n times.
RECURSIVE Iterate(_, _, _)
Iterate(Step(_), st, n) ==
    IF st.done \/ n = 0 THEN st
    ELSE IF n = 1 THEN Step(st)
    ELSE Iterate(Step, Iterate(Step, st, n \div 2), n - n \div 2)

\* ------------------------------------------------------ character classes

\* What /\s/ matches among the characters used (JavaScript: White_Space and
\* line terminators, U+00A0 and U+FEFF included).
WhitespaceChars == {" ", "\t", "\n", "nbsp", "bom"}

\* What /\p{Cf}/u matches among the characters used (U+200B, U+200D, U+FEFF).
FormatChars == {"zwsp", "zwj", "bom"}

\* Faulty variant: the underscore is missing from the character class.
isDelimiterNoUnderscore(char) ==
    char \in WhitespaceChars \cup
        {"-", "emdash", "endash", "/", "(", ")", "{", "}", "[", "]",
         ",", ".", ":", ";", "?", "!", "ellipsis"}

\* /[\s_\-—–/\(\)\{\}\[\],\.:;?!…]/.test(char)
isDelimiter(char) ==
    char \in WhitespaceChars \cup
        {"_", "-", "emdash", "endash", "/", "(", ")", "{", "}", "[", "]",
         ",", ".", ":", ";", "?", "!", "ellipsis"}

isWordChar(char) == ~isDelimiter(char)

\* part_002: /[\s_\-–/\(\)\{\}\[\],\.:;?!…]/.test(char)
isDelimiterEarlier(char) ==
    char \in WhitespaceChars \cup
        {"_", "-", "endash", "/", "(", ")", "{", "}", "[", "]",
         ",", ".", ":", ";", "?", "!", "ellipsis"}

isWordCharEarlier(char) == ~isDelimiterEarlier(char)

\* /\s|\p{Cf}/u.test(ch)
isWhitespaceOrZeroWidth(ch) == ch \in WhitespaceChars \cup FormatChars

\* ------------------------------------------------------------- rectangles

Rect(left, top, width, height) ==
    [left |-> left, top |-> top, right |-> left + width, bottom |-> top + height]

ZeroRect == Rect(0, 0, 0, 0)

Width(rect) == rect.right - rect.left
Height(rect) == rect.bottom - rect.top

rectOccupiesSpace(rect) == Width(rect) > 0 /\ Height(rect) > 0

\* Faulty variant: a degenerate rectangle contains the points on it.
isInsideRectDegenerate(rect, x, y) ==
    rect.left <= x /\ x <= rect.right /\ rect.top <= y /\ y <= rect.bottom

isInsideRect(rect, x, y) ==
    rect.left <= x /\ x <= rect.right /\ rect.top <= y /\ y <= rect.bottom
        /\ rectOccupiesSpace(rect)

\* ------------------------------------------------------------ content tree

Nodes(d) == 1..Len(d.kind)
IsNode(d, n) == n \in Nodes(d)
IsTextNode(d, n) == IsNode(d, n) /\ d.kind[n] = "text"
IsElementNode(d, n) == IsNode(d, n) /\ d.kind[n] \in {"body", "element"}
IsBody(d, n) == IsNode(d, n) /\ d.kind[n] = "body"

textContent(d, n) == d.text[n]
Length(d, n) == Len(d.text[n])

\* textContent[i] with JavaScript's 0-based index; out of range it is
\* undefined, which the classifiers' regular expressions read as "undefined".
CharAt(d, n, i) ==
    IF i >= 0 /\ i < Length(d, n) THEN d.text[n][i + 1].ch ELSE "undefined"

parentElement(d, n) == d.parent[n]

SetMax(S) == CHOOSE m \in S : \A k \in S : k <= m
SetMin(S) == CHOOSE m \in S : \A k \in S : m <= k

previousSibling(d, n) ==
    LET S == {m \in Nodes(d) : d.parent[m] = d.parent[n] /\ m < n}
    IN  IF S = {} THEN Null ELSE SetMax(S)

nextSibling(d, n) ==
    LET S == {m \in Nodes(d) : d.parent[m] = d.parent[n] /\ m > n}
    IN  IF S = {} THEN Null ELSE SetMin(S)

ChildSet(d, n) == {m \in Nodes(d) : d.parent[m] = n}

\* node.nodeType !== ELEMENT_NODE || (offsetWidth > 0 && offsetHeight > 0)
occupiesSpace(d, n) == ~IsElementNode(d, n) \/ d.occ[n]

\* ------------------------------------------------------------------ ranges

\* document.createRange(): both boundaries at (document, 0).
createRange ==
    [sc |-> DocumentNode, so |-> 0, ec |-> DocumentNode, eo |-> 0]

Collapsed(r) == r.sc = r.ec /\ r.so = r.eo

\* Boundary point (n, o) is after (m, p) in document order.
After(n, o, m, p) == n > m \/ (n = m /\ o > p)

\* Range.setStart: a start after the end moves the end with it.
setStart(r, n, o) ==
    IF After(n, o, r.ec, r.eo)
    THEN [r EXCEPT !.sc = n, !.so = o, !.ec = n, !.eo = o]
    ELSE [r EXCEPT !.sc = n, !.so = o]

\* Range.setEnd: an end before the start moves the start with it.
setEnd(r, n, o) ==
    IF After(r.sc, r.so, n, o)
    THEN [r EXCEPT !.sc = n, !.so = o, !.ec = n, !.eo = o]
    ELSE [r EXCEPT !.ec = n, !.eo = o]

\* Faulty variant: the range is left as it was.
collapseNothing(r) == r

\* Range.collapse(false): collapse to the end boundary.
collapse(r) == [r EXCEPT !.sc = r.ec, !.so = r.eo]

\* The rectangles of the characters lo .. hi - 1 of text node n, in order.
RECURSIVE CharRects(_, _, _, _)
CharRects(d, n, lo, hi) ==
    IF lo >= hi THEN <<>>
    ELSE IF hi = lo + 1 THEN d.text[n][lo + 1].rects
    ELSE CharRects(d, n, lo, (lo + hi) \div 2)
            \o CharRects(d, n, (lo + hi) \div 2, hi)

\* Range.getClientRects(): the rectangles of the characters inside the range,
\* in document order, from character i of node n on.
RECURSIVE ClientRectsFrom(_, _, _, _)
ClientRectsFrom(d, r, n, i) ==
    IF n > r.ec THEN <<>>
    ELSE IF ~IsTextNode(d, n) THEN ClientRectsFrom(d, r, n + 1, 0)
    ELSE IF n = r.ec
    THEN CharRects(d, n, i, IF r.eo < Length(d, n) THEN r.eo
                            ELSE Length(d, n))
    ELSE CharRects(d, n, i, Length(d, n)) \o ClientRectsFrom(d, r, n + 1, 0)

getClientRects(d, r) ==
    IF Collapsed(r) \/ ~IsNode(d, r.sc) THEN <<>>
    ELSE ClientRectsFrom(d, r, r.sc, r.so)

SeqRange(s) == {s[k] : k \in 1..Len(s)}

\* Range.getBoundingClientRect() (CSSOM View): the zero rectangle for an
\* empty list, the first rectangle when every rectangle has zero width or
\* height, else the union of those whose width or height is not zero.
BoundingOf(rects) ==
    LET all == SeqRange(rects)
        big == {rc \in all : Width(rc) # 0 \/ Height(rc) # 0}
    IN  IF rects = <<>> THEN ZeroRect
        ELSE IF \A rc \in all : Width(rc) = 0 \/ Height(rc) = 0 THEN rects[1]
        ELSE [left   |-> SetMin({rc.left : rc \in big}),
              top    |-> SetMin({rc.top : rc \in big}),
              right  |-> SetMax({rc.right : rc \in big}),
              bottom |-> SetMax({rc.bottom : rc \in big})]

getBoundingClientRect(d, r) == BoundingOf(getClientRects(d, r))

\* ----------------------------------------------------------- word resolver

IsTextCaret(d, cp) == cp.node # Null /\ IsTextNode(d, cp.node)

\* Lines 208-211: advance over word characters inside one text node.
ScanWordForward(d, n, off) ==
    SetMin({k \in off..Length(d, n) :
              k = Length(d, n) \/ ~isWordChar(CharAt(d, n, k))})

\* Lines 233-236: retreat over word characters inside one text node.
ScanWordBackward(d, n, off) ==
    SetMax({k \in 0..off : k = 0 \/ ~isWordChar(CharAt(d, n, k - 1))})

\* Faulty variant: the end scan never continues into the next sibling.
RECURSIVE WordEndOneNode(_, _, _)
WordEndOneNode(d, endNode, endOffset) ==
    [node |-> endNode, offset |-> ScanWordForward(d, endNode, endOffset)]

\* Faulty variant: the end scan stops in the first empty text node it meets.
RECURSIVE WordEndAtEmpty(_, _, _)
WordEndAtEmpty(d, endNode, endOffset) ==
    LET off == ScanWordForward(d, endNode, endOffset)
        next == nextSibling(d, endNode)
    IN  IF off < Length(d, endNode) \/ ~IsTextNode(d, next)
        THEN [node |-> endNode, offset |-> off]
        ELSE IF Length(d, next) = 0 THEN [node |-> next, offset |-> 0]
        ELSE WordEndAtEmpty(d, next, 0)

\* Lines 205-226: the exclusive end of the word.
RECURSIVE WordEnd(_, _, _)
WordEnd(d, endNode, endOffset) ==
    LET off == ScanWordForward(d, endNode, endOffset)
        next == nextSibling(d, endNode)
    IN  IF off < Length(d, endNode) \/ ~IsTextNode(d, next)
        THEN [node |-> endNode, offset |-> off]
        ELSE WordEnd(d, next, 0)

\* Lines 244-248: skip all the previous empty sibling text nodes.
RECURSIVE SkipEmptyPrevious(_, _)
SkipEmptyPrevious(d, n) ==
    LET prev == previousSibling(d, n)
    IN  IF IsTextNode(d, prev) /\ Length(d, prev) = 0
        THEN SkipEmptyPrevious(d, prev)
        ELSE prev

\* Lines 229-262: the inclusive start of the word.
RECURSIVE WordStart(_, _, _)
WordStart(d, startNode, startOffset) ==
    Bind(ScanWordBackward(d, startNode, startOffset), LAMBDA off :
      IF off > 0 THEN [node |-> startNode, offset |-> off]
      ELSE Bind(SkipEmptyPrevious(d, startNode), LAMBDA prevNode :
        IF ~IsTextNode(d, prevNode)
           \/ isDelimiter(CharAt(d, prevNode, Length(d, prevNode) - 1))
        THEN [node |-> startNode, offset |-> off]
        ELSE WordStart(d, prevNode, Length(d, prevNode) - 1)))

\* Faulty variant: the early return on a delimiter under the caret is missing.
setHighlightWordRangeNoDelimiterCheck(d, r, cp) ==
    IF ~IsTextCaret(d, cp) THEN r
    ELSE Bind(WordEnd(d, cp.node, IF cp.offset >= Length(d, cp.node)
                                  THEN Length(d, cp.node)
                                  ELSE cp.offset + 1), LAMBDA e :
         Bind(WordStart(d, cp.node, cp.offset), LAMBDA s :
           setEnd(setStart(r, s.node, s.offset), e.node, e.offset)))

\* setHighlightWordRange(caretPosition): the new highlightWordRange.
setHighlightWordRange(d, r, cp) ==
    IF ~IsTextCaret(d, cp) THEN r
    ELSE IF cp.offset < Length(d, cp.node)
            /\ isDelimiter(CharAt(d, cp.node, cp.offset))
    THEN r
    ELSE Bind(WordEnd(d, cp.node, IF cp.offset >= Length(d, cp.node)
                                  THEN Length(d, cp.node)
                                  ELSE cp.offset + 1), LAMBDA e :
         Bind(WordStart(d, cp.node, cp.offset), LAMBDA s :
           setEnd(setStart(r, s.node, s.offset), e.node, e.offset)))

\* isPointOutsideHighlightedWord(x, y)
isPointOutsideHighlightedWord(d, r, x, y) ==
    Collapsed(r)
        \/ ~\E rc \in SeqRange(getClientRects(d, r)) : isInsideRect(rc, x, y)

\* ----------------------------------------------------------- line resolver

\* new CachedLineRange(): a Range with the private fields
\* #manualBoundingRectTop, #manualBoundingRectBottom, #minRectHeight and
\* #linesSpannedChecks.
newCachedLineRange ==
    [sc |-> DocumentNode, so |-> 0, ec |-> DocumentNode, eo |-> 0,
     manualBoundingRectTop |-> 0, manualBoundingRectBottom |-> 0,
     minRectHeight |-> 0, linesSpannedChecks |-> 0]

\* Faulty variant: the probe counter is not restarted.
setInitialRectNoReset(L, rect) ==
    [L EXCEPT !.minRectHeight = rect.bottom - rect.top,
              !.manualBoundingRectTop = rect.top,
              !.manualBoundingRectBottom = rect.bottom]

\* Faulty variant: the running bounds of the previous resolution are kept.
setInitialRectKeepBounds(L, rect) ==
    [L EXCEPT !.minRectHeight = rect.bottom - rect.top,
              !.manualBoundingRectTop =
                  IF L.minRectHeight = 0 THEN rect.top ELSE @,
              !.manualBoundingRectBottom =
                  IF L.minRectHeight = 0 THEN rect.bottom ELSE @,
              !.linesSpannedChecks = 0]

\* CachedLineRange.setInitialRect(rect)
setInitialRect(L, rect) ==
    [L EXCEPT !.minRectHeight = rect.bottom - rect.top,
              !.manualBoundingRectTop = rect.top,
              !.manualBoundingRectBottom = rect.bottom,
              !.linesSpannedChecks = 0]

Min(a, b) == IF a < b THEN a ELSE b

\* The bounding rectangle of the one-character range [i, i + 1) of node n.
SingleCharRect(d, n, i) == BoundingOf(d.text[n][i + 1].rects)

\* Faulty variant: the intercept height is not compared.
ProbeSameLineNoIntercept(L, singleCharRect) ==
    LET minHeight == Min(L.minRectHeight, Height(singleCharRect))
        newBoundingRectTop == Min(singleCharRect.top, L.manualBoundingRectTop)
        newBoundingRectBottom ==
            IF singleCharRect.bottom > L.manualBoundingRectBottom
            THEN singleCharRect.bottom ELSE L.manualBoundingRectBottom
        newBoundingRectHeight == newBoundingRectBottom - newBoundingRectTop
    IN  [isSameLine |-> 7 * minHeight > 4 * newBoundingRectHeight,
         top |-> newBoundingRectTop,
         bottom |-> newBoundingRectBottom,
         minHeight |-> minHeight]

\* Faulty variant: a character without height is taken to be on the line.
ProbeSameLineSkipsEmpty(L, singleCharRect) ==
    LET minHeight == Min(L.minRectHeight, Height(singleCharRect))
        newBoundingRectTop == Min(singleCharRect.top, L.manualBoundingRectTop)
        newBoundingRectBottom ==
            IF singleCharRect.bottom > L.manualBoundingRectBottom
            THEN singleCharRect.bottom ELSE L.manualBoundingRectBottom
        interceptRectTop ==
            IF singleCharRect.top < L.manualBoundingRectTop
            THEN L.manualBoundingRectTop ELSE singleCharRect.top
        interceptRectBottom ==
            IF singleCharRect.bottom > L.manualBoundingRectBottom
            THEN L.manualBoundingRectBottom ELSE singleCharRect.bottom
        newBoundingRectHeight == newBoundingRectBottom - newBoundingRectTop
        interceptRectHeight == interceptRectBottom - interceptRectTop
    IN  IF Height(singleCharRect) = 0
        THEN [isSameLine |-> TRUE, top |-> L.manualBoundingRectTop,
              bottom |-> L.manualBoundingRectBottom,
              minHeight |-> L.minRectHeight]
        ELSE [isSameLine |->
                  7 * minHeight > 4 * newBoundingRectHeight
                      /\ 7 * interceptRectHeight > 4 * newBoundingRectHeight,
              top |-> newBoundingRectTop,
              bottom |-> newBoundingRectBottom,
              minHeight |-> minHeight]

\* Faulty variant: the height of the probed character becomes the minimum.
ProbeSameLineLastHeight(L, singleCharRect) ==
    LET minHeight == Min(L.minRectHeight, Height(singleCharRect))
        newBoundingRectTop == Min(singleCharRect.top, L.manualBoundingRectTop)
        newBoundingRectBottom ==
            IF singleCharRect.bottom > L.manualBoundingRectBottom
            THEN singleCharRect.bottom ELSE L.manualBoundingRectBottom
        interceptRectTop ==
            IF singleCharRect.top < L.manualBoundingRectTop
            THEN L.manualBoundingRectTop ELSE singleCharRect.top
        interceptRectBottom ==
            IF singleCharRect.bottom > L.manualBoundingRectBottom
            THEN L.manualBoundingRectBottom ELSE singleCharRect.bottom
        newBoundingRectHeight == newBoundingRectBottom - newBoundingRectTop
        interceptRectHeight == interceptRectBottom - interceptRectTop
    IN  [isSameLine |-> 7 * minHeight > 4 * newBoundingRectHeight
                        /\ 7 * interceptRectHeight > 4 * newBoundingRectHeight,
         top |-> newBoundingRectTop,
         bottom |-> newBoundingRectBottom,
         minHeight |-> Height(singleCharRect)]

\* Lines 318-344 (and 372-398): the running bounds a probed character would
\* give, and whether it is on the same line.  1.75 * a > b is 7 * a > 4 * b.
ProbeSameLine(L, singleCharRect) ==
    LET minHeight == Min(L.minRectHeight, Height(singleCharRect))
        topExtends == singleCharRect.top < L.manualBoundingRectTop
        newBoundingRectTop ==
            IF topExtends THEN singleCharRect.top ELSE L.manualBoundingRectTop
        interceptRectTop ==
            IF topExtends THEN L.manualBoundingRectTop ELSE singleCharRect.top
        bottomExtends == singleCharRect.bottom > L.manualBoundingRectBottom
        newBoundingRectBottom ==
            IF bottomExtends THEN singleCharRect.bottom
            ELSE L.manualBoundingRectBottom
        interceptRectBottom ==
            IF bottomExtends THEN L.manualBoundingRectBottom
            ELSE singleCharRect.bottom
        newBoundingRectHeight == newBoundingRectBottom - newBoundingRectTop
        interceptRectHeight == interceptRectBottom - interceptRectTop
    IN  [isSameLine |-> 7 * minHeight > 4 * newBoundingRectHeight
                        /\ 7 * interceptRectHeight > 4 * newBoundingRectHeight,
         top |-> newBoundingRectTop,
         bottom |-> newBoundingRectBottom,
         minHeight |-> minHeight]

Commit(L, pr) ==
    [L EXCEPT !.manualBoundingRectTop = pr.top,
              !.manualBoundingRectBottom = pr.bottom,
              !.minRectHeight = pr.minHeight]

\* Faulty variant: the new bounds are kept when the character is rejected.
tryToExpandEndNoRollback(d, L, newNode, newOffset) ==
    Bind([L EXCEPT !.linesSpannedChecks = @ + 1], LAMBDA L1 :
      IF L1.linesSpannedChecks > MAX_LINES_SPANNED_CHECKS
      THEN [L |-> L1, ok |-> FALSE]
      ELSE Bind(ProbeSameLine(L1, SingleCharRect(d, newNode, newOffset - 1)),
                LAMBDA pr :
        IF pr.isSameLine
        THEN [L |-> setEnd(Commit(L1, pr), newNode, newOffset), ok |-> TRUE]
        ELSE [L |-> Commit(L1, pr), ok |-> FALSE]))

\* CachedLineRange.tryToExpandEnd(newNode, newOffset)
tryToExpandEnd(d, L, newNode, newOffset) ==
    Bind([L EXCEPT !.linesSpannedChecks = @ + 1], LAMBDA L1 :
      IF L1.linesSpannedChecks > MAX_LINES_SPANNED_CHECKS
      THEN [L |-> L1, ok |-> FALSE]
      ELSE Bind(ProbeSameLine(L1, SingleCharRect(d, newNode, newOffset - 1)),
                LAMBDA pr :
        IF pr.isSameLine
        THEN [L |-> setEnd(Commit(L1, pr), newNode, newOffset), ok |-> TRUE]
        ELSE [L |-> L1, ok |-> FALSE]))

\* CachedLineRange.tryToExpandStart(newNode, newOffset)
tryToExpandStart(d, L, newNode, newOffset) ==
    Bind([L EXCEPT !.linesSpannedChecks = @ + 1], LAMBDA L1 :
      IF L1.linesSpannedChecks > MAX_LINES_SPANNED_CHECKS
      THEN [L |-> L1, ok |-> FALSE]
      ELSE Bind(ProbeSameLine(L1, SingleCharRect(d, newNode, newOffset)),
                LAMBDA pr :
        IF pr.isSameLine
        THEN [L |-> setStart(Commit(L1, pr), newNode, newOffset), ok |-> TRUE]
        ELSE [L |-> L1, ok |-> FALSE]))

isPointOutsideHighlightedLine(d, L, x, y) ==
    Collapsed(L) \/ ~isInsideRect(getBoundingClientRect(d, L), x, y)

\* Faulty variant: rectangles of one size count as one.
hasMoreThanOneSizeOnly(rectangles) ==
    Len(rectangles) > 1
    /\ \E i \in 2..Len(rectangles) :
          LET rect1 == rectangles[i - 1]
              rect2 == rectangles[i]
          IN  rectOccupiesSpace(rect1) /\ rectOccupiesSpace(rect2)
              /\ (Width(rect1) # Width(rect2)
                  \/ Height(rect1) # Height(rect2))

hasMoreThanOne(rectangles) ==
    Len(rectangles) > 1
    /\ \E i \in 2..Len(rectangles) :
          LET rect1 == rectangles[i - 1]
              rect2 == rectangles[i]
          IN  rectOccupiesSpace(rect1) /\ rectOccupiesSpace(rect2)
              /\ (rect1.left # rect2.left \/ rect1.top # rect2.top
                  \/ Width(rect1) # Width(rect2)
                  \/ Height(rect1) # Height(rect2))

\* getNextTextNode(root): the first non-empty text node under root, skipping
\* children that occupy no space.
RECURSIVE getNextTextNode(_, _)
getNextTextNode(d, root) ==
    IF IsTextNode(d, root)
    THEN (IF Length(d, root) = 0 THEN Null ELSE root)
    ELSE LET found == {c \in ChildSet(d, root) :
                         occupiesSpace(d, c) /\ getNextTextNode(d, c) # Null}
         IN  IF found = {} THEN Null ELSE getNextTextNode(d, SetMin(found))

\* getLastNonEmptyTextNode(root): the last one, symmetrically.
RECURSIVE getLastNonEmptyTextNode(_, _)
getLastNonEmptyTextNode(d, root) ==
    IF IsTextNode(d, root)
    THEN (IF Length(d, root) = 0 THEN Null ELSE root)
    ELSE LET found == {c \in ChildSet(d, root) :
                         occupiesSpace(d, c)
                         /\ getLastNonEmptyTextNode(d, c) # Null}
         IN  IF found = {} THEN Null
             ELSE getLastNonEmptyTextNode(d, SetMax(found))

\* Faulty variant: the climb does not stop at document.body.
RECURSIVE NextUncleWrap(_, _)
NextUncleWrap(d, parent) ==
    IF IsBody(d, parent) THEN parent
    ELSE IF nextSibling(d, parent) # Null THEN nextSibling(d, parent)
    ELSE NextUncleWrap(d, parentElement(d, parent))

\* Lines 651-665: the next sibling of the nearest ancestor that has one, or
\* Null once document.body is reached.
RECURSIVE NextUncle(_, _)
NextUncle(d, parent) ==
    IF IsBody(d, parent) THEN Null
    ELSE IF nextSibling(d, parent) # Null THEN nextSibling(d, parent)
    ELSE NextUncle(d, parentElement(d, parent))

\* Lines 550-564: the previous sibling of the nearest ancestor that has one.
RECURSIVE PreviousUncle(_, _)
PreviousUncle(d, parent) ==
    IF IsBody(d, parent) THEN Null
    ELSE IF previousSibling(d, parent) # Null THEN previousSibling(d, parent)
    ELSE PreviousUncle(d, parentElement(d, parent))

\* Lines 646-688: the text node the end scan continues in after currentNode,
\* or Null where the code returns false.
RECURSIVE NextNodeWalk(_, _)
NextNodeWalk(d, currentNode) ==
    Bind(IF nextSibling(d, currentNode) # Null
         THEN nextSibling(d, currentNode)
         ELSE NextUncle(d, parentElement(d, currentNode)), LAMBDA nextNode :
      IF nextNode = Null THEN Null
      ELSE IF ~occupiesSpace(d, nextNode) THEN NextNodeWalk(d, nextNode)
      ELSE Bind(getNextTextNode(d, nextNode), LAMBDA nextTextNode :
        IF nextTextNode = Null THEN NextNodeWalk(d, nextNode)
        ELSE nextTextNode))

\* The earlier version of the script (part_002), lines 585-599: the next
\* sibling of the nearest ancestor that has one with a box.
RECURSIVE NextUncleMemo(_, _)
NextUncleMemo(d, parent) ==
    IF IsBody(d, parent) THEN Null
    ELSE IF nextSibling(d, parent) # Null
            /\ occupiesSpace(d, nextSibling(d, parent))
    THEN nextSibling(d, parent)
    ELSE NextUncleMemo(d, parentElement(d, parent))

\* The earlier version of the script (part_002), lines 581-620: the text node
\* its end scan continues in after currentNode.  A next sibling without a
\* box sends the walk to the ancestors' siblings.
RECURSIVE NextNodeWalkMemo(_, _)
NextNodeWalkMemo(d, currentNode) ==
    Bind(IF nextSibling(d, currentNode) # Null
            /\ occupiesSpace(d, nextSibling(d, currentNode))
         THEN nextSibling(d, currentNode)
         ELSE NextUncleMemo(d, parentElement(d, currentNode)),
         LAMBDA nextNode :
      IF nextNode = Null THEN Null
      ELSE Bind(getNextTextNode(d, nextNode), LAMBDA nextTextNode :
        IF nextTextNode = Null THEN NextNodeWalkMemo(d, nextNode)
        ELSE nextTextNode))

\* An upper bound on the iterations of a scan over the page: every iteration
\* passes a character or moves to another node.
LoopBound(d) ==
    Len(d.kind) * (1 + SetMax({Length(d, n) : n \in Nodes(d)}))

\* Faulty variant: a whitespace character is not passed.
LineEndStepStuck(d, st, oneChar) ==
    IF st.offset < Length(d, st.node)
    THEN IF isWhitespaceOrZeroWidth(CharAt(d, st.node, st.offset))
         THEN st
         ELSE Bind(tryToExpandEnd(d, st.L, st.node, st.offset + 1),
                   LAMBDA t :
           IF ~t.ok
           THEN [st EXCEPT !.L = t.L, !.offset = @ + 1, !.done = TRUE]
           ELSE [st EXCEPT !.L = t.L, !.offset = @ + 1,
                           !.done = oneChar, !.ret = oneChar])
    ELSE Bind(NextNodeWalk(d, st.node), LAMBDA nextTextNode :
           IF nextTextNode = Null THEN [st EXCEPT !.done = TRUE]
           ELSE [st EXCEPT !.node = nextTextNode, !.offset = 0])

\* One iteration of the loops of updateHighlightLineRangeEnd(oneChar) (lines
\* 622-689) at (st.node, st.offset): a character of the current node, or the
\* move to the next text node.  done: the function returned st.ret.
LineEndStep(d, st, oneChar) ==
    IF st.offset < Length(d, st.node)
    THEN IF isWhitespaceOrZeroWidth(CharAt(d, st.node, st.offset))
         THEN [st EXCEPT !.offset = @ + 1]
         ELSE Bind(tryToExpandEnd(d, st.L, st.node, st.offset + 1),
                   LAMBDA t :
           IF ~t.ok
           THEN [st EXCEPT !.L = t.L, !.offset = @ + 1, !.done = TRUE]
           ELSE [st EXCEPT !.L = t.L, !.offset = @ + 1,
                           !.done = oneChar, !.ret = oneChar])
    ELSE Bind(NextNodeWalk(d, st.node), LAMBDA nextTextNode :
           IF nextTextNode = Null THEN [st EXCEPT !.done = TRUE]
           ELSE [st EXCEPT !.node = nextTextNode, !.offset = 0])

\* The loop of updateHighlightLineRangeEnd(oneChar) from (currentNode,
\* currentOffset).
LineEndScan(d, L, currentNode, currentOffset, oneChar) ==
    Iterate(LAMBDA st : LineEndStep(d, st, oneChar),
            [L |-> L, node |-> currentNode, offset |-> currentOffset,
             done |-> FALSE, ret |-> FALSE],
            LoopBound(d))

\* updateHighlightLineRangeEnd(oneChar), from the range's end boundary.
updateHighlightLineRangeEnd(d, L, oneChar) ==
    LineEndScan(d, L, L.ec, L.eo, oneChar)

\* Lines 545-578: the last non-empty text node before currentNode that the
\* start scan continues in, or Null where the code returns false.
RECURSIVE PreviousNodeWalk(_, _)
PreviousNodeWalk(d, currentNode) ==
    Bind(IF previousSibling(d, currentNode) # Null
         THEN previousSibling(d, currentNode)
         ELSE PreviousUncle(d, parentElement(d, currentNode)),
         LAMBDA previousNode :
      IF previousNode = Null THEN Null
      ELSE IF ~occupiesSpace(d, previousNode)
      THEN PreviousNodeWalk(d, previousNode)
      ELSE Bind(getLastNonEmptyTextNode(d, previousNode),
                LAMBDA lastTextNode :
        IF lastTextNode = Null THEN PreviousNodeWalk(d, previousNode)
        ELSE lastTextNode))

\* One iteration of the loops of updateHighlightLineRangeStart(oneChar)
\* (lines 523-601): a character of the current node, or the move to the last
\* character of the previous text node (lines 580-598).
LineStartStep(d, st, oneChar) ==
    IF st.offset > 0
    THEN IF isWhitespaceOrZeroWidth(CharAt(d, st.node, st.offset - 1))
         THEN [st EXCEPT !.offset = @ - 1]
         ELSE Bind(tryToExpandStart(d, st.L, st.node, st.offset - 1),
                   LAMBDA t :
           IF ~t.ok
           THEN [st EXCEPT !.L = t.L, !.offset = @ - 1, !.done = TRUE]
           ELSE [st EXCEPT !.L = t.L, !.offset = @ - 1,
                           !.done = oneChar, !.ret = oneChar])
    ELSE Bind(PreviousNodeWalk(d, st.node), LAMBDA lastTextNode :
      IF lastTextNode = Null THEN [st EXCEPT !.done = TRUE]
      ELSE Bind(Length(d, lastTextNode) - 1, LAMBDA lastCharIdx :
        IF isWhitespaceOrZeroWidth(CharAt(d, lastTextNode, lastCharIdx))
        THEN [st EXCEPT !.node = lastTextNode, !.offset = lastCharIdx]
        ELSE Bind(tryToExpandStart(d, st.L, lastTextNode, lastCharIdx),
                  LAMBDA t :
          IF ~t.ok THEN [st EXCEPT !.L = t.L, !.done = TRUE]
          ELSE [st EXCEPT !.L = t.L, !.node = lastTextNode,
                          !.offset = lastCharIdx,
                          !.done = oneChar, !.ret = oneChar])))

\* The loop of updateHighlightLineRangeStart(oneChar) from (currentNode,
\* currentOffset).
LineStartScan(d, L, currentNode, currentOffset, oneChar) ==
    Iterate(LAMBDA st : LineStartStep(d, st, oneChar),
            [L |-> L, node |-> currentNode, offset |-> currentOffset,
             done |-> FALSE, ret |-> FALSE],
            LoopBound(d))

\* Faulty variant: the start scan sets out from the end boundary.
updateHighlightLineRangeStartFromEnd(d, L, oneChar) ==
    LineStartScan(d, L, L.ec, L.eo, oneChar)

updateHighlightLineRangeStart(d, L, oneChar) ==
    LineStartScan(d, L, L.sc, L.so, oneChar)

\* What one iteration of the do-while loop did: where each call found its
\* boundary and left it, how many probes it made and what it returned.
Round(L, e, s) ==
    [endFrom |-> <<L.ec, L.eo>>, endTo |-> <<e.L.ec, e.L.eo>>,
     endProbes |-> e.L.linesSpannedChecks - L.linesSpannedChecks,
     keepGoingEnd |-> e.ret,
     startFrom |-> <<e.L.sc, e.L.so>>, startTo |-> <<s.L.sc, s.L.so>>,
     startProbes |-> s.L.linesSpannedChecks - e.L.linesSpannedChecks,
     keepGoingStart |-> s.ret,
     endBounds |-> <<e.L.manualBoundingRectTop, e.L.manualBoundingRectBottom,
                     e.L.minRectHeight>>,
     startBounds |-> <<s.L.manualBoundingRectTop,
                       s.L.manualBoundingRectBottom, s.L.minRectHeight>>]

\* Faulty variant: the start is not attempted once the end has failed.
AlternateStepEndFirst(d, st) ==
    Bind(updateHighlightLineRangeEnd(d, st.L, TRUE), LAMBDA e :
    Bind(IF e.ret THEN updateHighlightLineRangeStart(d, e.L, TRUE)
         ELSE [L |-> e.L, ret |-> FALSE, done |-> TRUE], LAMBDA s :
      [L |-> s.L, keepGoingStart |-> s.ret, keepGoingEnd |-> e.ret,
       done |-> ~(s.ret /\ e.ret),
       terminated |-> st.terminated /\ e.done /\ s.done,
       rounds |-> Append(st.rounds, Round(st.L, e, s))]))

\* Lines 477-480, one iteration of the do-while loop: one character at the
\* end, then one at the start.  terminated: the calls so far returned.
\* rounds: what the iterations so far did.
AlternateStep(d, st) ==
    Bind(updateHighlightLineRangeEnd(d, st.L, TRUE), LAMBDA e :
    Bind(updateHighlightLineRangeStart(d, e.L, TRUE), LAMBDA s :
      [L |-> s.L, keepGoingStart |-> s.ret, keepGoingEnd |-> e.ret,
       done |-> ~(s.ret /\ e.ret),
       terminated |-> st.terminated /\ e.done /\ s.done,
       rounds |-> Append(st.rounds, Round(st.L, e, s))]))

\* Lines 477-480: the do-while loop.
Alternate(d, L) ==
    Iterate(LAMBDA st : AlternateStep(d, st),
            [L |-> L, keepGoingStart |-> TRUE, keepGoingEnd |-> TRUE,
             done |-> FALSE, terminated |-> TRUE, rounds |-> <<>>],
            LoopBound(d))

\* The calls of a line resolution that made none.
NoTrace ==
    [rounds |-> <<>>, greedyStart |-> FALSE, greedyEnd |-> FALSE,
     greedyStartProbes |-> 0, greedyEndProbes |-> 0]

\* Lines 474-488: the alternation and the greedy expansion of the side that
\* kept going.  trace: the iterations of the loop, which of the calls of
\* lines 483 and 487 were made and the probes they counted.
ExpandLine(d, L) ==
    Bind(Alternate(d, L), LAMBDA a :
    Bind(IF a.keepGoingStart
         THEN updateHighlightLineRangeStart(d, a.L, FALSE)
         ELSE [L |-> a.L, done |-> TRUE], LAMBDA s :
    Bind(IF a.keepGoingEnd
         THEN updateHighlightLineRangeEnd(d, s.L, FALSE)
         ELSE [L |-> s.L, done |-> TRUE], LAMBDA e :
      [L |-> e.L,
       terminated |-> a.done /\ a.terminated /\ s.done /\ e.done,
       trace |-> [rounds |-> a.rounds,
                  greedyStart |-> a.keepGoingStart,
                  greedyEnd |-> a.keepGoingEnd,
                  greedyStartProbes |->
                      s.L.linesSpannedChecks - a.L.linesSpannedChecks,
                  greedyEndProbes |->
                      e.L.linesSpannedChecks - s.L.linesSpannedChecks]])))

\* Faulty variant: only the start boundary is compared with the seed.
SeedOnEdgeWhitespaceStartOnly(d, L, cp, startOffset) ==
    L.sc = cp.node /\ L.so = startOffset
        /\ isWhitespaceOrZeroWidth(CharAt(d, L.sc, startOffset))

\* Faulty variant: only the end boundary is compared with the seed.
SeedOnEdgeWhitespaceEndOnly(d, L, cp, startOffset) ==
    L.ec = cp.node /\ L.eo = startOffset + 1
        /\ isWhitespaceOrZeroWidth(CharAt(d, L.ec, startOffset))

\* Lines 492-501: the caret points to leading or trailing whitespace.
SeedOnEdgeWhitespace(d, L, cp, startOffset) ==
    \/ L.sc = cp.node /\ L.so = startOffset
        /\ isWhitespaceOrZeroWidth(CharAt(d, L.sc, startOffset))
    \/ L.ec = cp.node /\ L.eo = startOffset + 1
        /\ isWhitespaceOrZeroWidth(CharAt(d, L.ec, startOffset))

\* Faulty variant: the height of the seed is not looked at.
SeedOffLineNoHeight(lineRect, mouseY) ==
    mouseY < lineRect.top \/ lineRect.bottom < mouseY

\* Lines 455-456: the seed has no height or the pointer is above or below it.
SeedOffLine(lineRect, mouseY) ==
    Height(lineRect) = 0 \/ mouseY < lineRect.top \/ lineRect.bottom < mouseY

\* setHighlightLineRange(caretPosition, mouseY).  threw: Range.setStart
\* raised IndexSizeError (offset -1 of an empty text node).  terminated: its
\* loops ended.  trace: the expansion calls it made.
setHighlightLineRange(d, L, cp, mouseY) ==
    IF ~IsTextCaret(d, cp)
    THEN [L |-> L, threw |-> FALSE, terminated |-> TRUE, trace |-> NoTrace]
    ELSE Bind(Min(cp.offset, Length(d, cp.node) - 1), LAMBDA startOffset :
      IF startOffset < 0
      THEN [L |-> L, threw |-> TRUE, terminated |-> TRUE, trace |-> NoTrace]
      ELSE Bind(setEnd(setStart(L, cp.node, startOffset),
                       cp.node, startOffset + 1), LAMBDA seeded :
           Bind(getBoundingClientRect(d, seeded), LAMBDA lineRect :
        IF SeedOffLine(lineRect, mouseY)
        THEN [L |-> collapse(seeded), threw |-> FALSE, terminated |-> TRUE,
              trace |-> NoTrace]
        ELSE Bind(setInitialRect(seeded, lineRect), LAMBDA initial :
          IF hasMoreThanOne(getClientRects(d, initial))
          THEN [L |-> collapse(initial), threw |-> FALSE,
                terminated |-> TRUE, trace |-> NoTrace]
          ELSE Bind(ExpandLine(d, initial), LAMBDA expanded :
            [L |-> IF SeedOnEdgeWhitespace(d, expanded.L, cp, startOffset)
                   THEN collapse(expanded.L) ELSE expanded.L,
             threw |-> FALSE,
             terminated |-> expanded.terminated,
             trace |-> expanded.trace])))))

\* ---------------------------------------------------------------- handlers

\* Faulty variant: the line range is forgotten.
pointerLeaveHandlerWordOnly(W, L) == [W |-> collapse(W), L |-> L]

\* pointerLeaveHandler(): both ranges collapsed.
pointerLeaveHandler(W, L) == [W |-> collapse(W), L |-> collapse(L)]

\* Lines 724-745 of pointerMoveHandler: the word branch.  res is the range as
\* setHighlightWordRange left it, W the range when the branch ends.
WordBranch(d, W, x, y, cp) ==
    Bind(setHighlightWordRange(d, collapse(W), cp), LAMBDA res :
      [res |-> res,
       W |-> IF isPointOutsideHighlightedWord(d, res, x, y)
             THEN collapse(res) ELSE res])

\* Lines 747-773 of pointerMoveHandler: the line branch.
LineBranch(d, L, x, y, cp) ==
    Bind(setHighlightLineRange(d, collapse(L), cp, y), LAMBDA r :
      [res |-> r.L,
       threw |-> r.threw,
       terminated |-> r.terminated,
       L |-> IF ~r.threw /\ isPointOutsideHighlightedLine(d, r.L, x, y)
             THEN collapse(r.L) ELSE r.L])

\* Faulty variant: the word is resolved again at every event.
pointerMoveHandlerAlwaysResolve(d, W, L, x, y, cp) ==
    Bind(isPointOutsideHighlightedLine(d, L, x, y), LAMBDA lineOutside :
    Bind(WordBranch(d, W, x, y, cp), LAMBDA wb :
    Bind(IF lineOutside THEN LineBranch(d, L, x, y, cp)
         ELSE [res |-> L, threw |-> FALSE, terminated |-> TRUE, L |-> L],
         LAMBDA lb :
      [W |-> wb.W,
       L |-> lb.L,
       wordBranch |-> TRUE,
       lineBranch |-> lineOutside,
       wordRes |-> wb.res,
       lineRes |-> lb.res,
       threw |-> lb.threw,
       terminated |-> lb.terminated,
       hitTests |-> 1])))

\* The value of the handler's variable caretPosition before any hit-test:
\* undefined, which is neither null (NoCaret) nor a Position.
UndefinedCaret == [node |-> Null, offset |-> -1]

\* Faulty variant: a null answer of the word branch is asked for again.
LineCaretLoose(caretPosition, cp) ==
    IF caretPosition = UndefinedCaret \/ caretPosition = NoCaret
    THEN [caretPosition |-> cp, hitTests |-> 1]
    ELSE [caretPosition |-> caretPosition, hitTests |-> 0]

\* Lines 756-758: the line branch runs the hit-test, which answers cp, only
\* if caretPosition is still undefined.
LineCaret(caretPosition, cp) ==
    IF caretPosition = UndefinedCaret
    THEN [caretPosition |-> cp, hitTests |-> 1]
    ELSE [caretPosition |-> caretPosition, hitTests |-> 0]

\* pointerMoveHandler(event), with cp what document.caretPositionFromPoint
\* answers for (event.x, event.y).  hitTests counts its calls.
pointerMoveHandler(d, W, L, x, y, cp) ==
    Bind(isPointOutsideHighlightedWord(d, W, x, y), LAMBDA wordOutside :
    Bind(isPointOutsideHighlightedLine(d, L, x, y), LAMBDA lineOutside :
    Bind(IF wordOutside THEN WordBranch(d, W, x, y, cp)
         ELSE [res |-> W, W |-> W], LAMBDA wb :
    Bind(IF lineOutside
         THEN LineCaret(IF wordOutside THEN cp ELSE UndefinedCaret, cp)
         ELSE [caretPosition |-> UndefinedCaret, hitTests |-> 0],
         LAMBDA lc :
    Bind(IF lineOutside THEN LineBranch(d, L, x, y, lc.caretPosition)
         ELSE [res |-> L, threw |-> FALSE, terminated |-> TRUE, L |-> L],
         LAMBDA lb :
      [W |-> wb.W,
       L |-> lb.L,
       wordBranch |-> wordOutside,
       lineBranch |-> lineOutside,
       wordRes |-> wb.res,
       lineRes |-> lb.res,
       threw |-> lb.threw,
       terminated |-> lb.terminated,
       hitTests |-> (IF wordOutside THEN 1 ELSE 0) + lc.hitTests])))))

\* ------------------------------------- the earlier version of the script
\* src/unnamed/part_002: the line range keeps its bounding rectangle in a
\* cache and measures the whole range again at every probe.  Its delimiters,
\* word resolver and tree descent are those of the current script.

\* The empty cache (#boundingClientRect = null).
NoRect == [left |-> -1, top |-> -1, right |-> -1, bottom |-> -1]

MAX_LINES_SPANNED_CHECKS_Memo == 115

\* new CachedLineRange() of part_002.  cacheHits counts the calls of
\* getBoundingClientRect that returned the cache, staleHits those of them
\* whose rectangle was not the bounding rectangle of the range.
newCachedLineRangeMemo ==
    [sc |-> DocumentNode, so |-> 0, ec |-> DocumentNode, eo |-> 0,
     boundingClientRect |-> NoRect, linesSpannedChecks |-> 0,
     cacheHits |-> 0, staleHits |-> 0]

invalidateBoundingClientRectangle(M) == [M EXCEPT !.boundingClientRect = NoRect]

setStartMemo(M, n, o) == setStart(invalidateBoundingClientRectangle(M), n, o)

setEndMemo(M, n, o) == setEnd(invalidateBoundingClientRectangle(M), n, o)

collapseMemo(M) == collapse(invalidateBoundingClientRectangle(M))

resetLinesSpannedChecksCount(M) == [M EXCEPT !.linesSpannedChecks = 0]

\* getBoundingClientRect() of part_002: the cache, filled when it is empty.
getBoundingClientRectMemo(d, M) ==
    IF M.boundingClientRect = NoRect
    THEN Bind(getBoundingClientRect(d, M), LAMBDA rc :
           [M |-> [M EXCEPT !.boundingClientRect = rc], rect |-> rc])
    ELSE [M |-> [M EXCEPT !.cacheHits = @ + 1,
                          !.staleHits =
                              IF M.boundingClientRect
                                    = getBoundingClientRect(d, M)
                              THEN @ ELSE @ + 1],
          rect |-> M.boundingClientRect]

rectanglesAreEqual(rect1, rect2) ==
    rect1.left = rect2.left /\ rect1.right = rect2.right
        /\ rect1.top = rect2.top /\ rect1.bottom = rect2.bottom

\* Faulty variant: the factor is 1.
SpansByHeightNoFactor(rects, boundingHeight) ==
    /\ Len(rects) >= 2
    /\ SetMin({Height(rects[k]) : k \in 1..Len(rects)}) <= boundingHeight

\* Lines 271-283 of part_002, after the budget test: the rectangles of the
\* range that occupy space are at least two and 1.73 times the smallest
\* height is at most the height of the bounding rectangle.
SpansByHeight(rects, boundingHeight) ==
    /\ Len(rects) >= 2
    /\ 173 * SetMin({Height(rects[k]) : k \in 1..Len(rects)})
          <= 100 * boundingHeight

\* spansMultipleLines() of part_002.
spansMultipleLines(d, M) ==
    Bind([M EXCEPT !.linesSpannedChecks = @ + 1], LAMBDA M1 :
      IF M1.linesSpannedChecks > MAX_LINES_SPANNED_CHECKS_Memo
      THEN [M |-> M1, result |-> TRUE]
      ELSE Bind(SelectSeq(getClientRects(d, M1), rectOccupiesSpace),
                LAMBDA rects :
        IF Len(rects) < 2 THEN [M |-> M1, result |-> FALSE]
        ELSE Bind(getBoundingClientRectMemo(d, M1), LAMBDA g :
          [M |-> g.M, result |-> SpansByHeight(rects, Height(g.rect))])))

\* Lines 310-319 (and 345-354) of part_002 after the boundary was moved:
\* whether the growth is taken back.  prev is the rectangle before the move.
GrowthRefused(d, M, prev, checkRectangleGrew) ==
    Bind(IF checkRectangleGrew THEN getBoundingClientRectMemo(d, M)
         ELSE [M |-> M, rect |-> NoRect], LAMBDA g :
      IF checkRectangleGrew /\ rectanglesAreEqual(prev, g.rect)
      THEN [M |-> g.M, result |-> TRUE]
      ELSE spansMultipleLines(d, g.M))

\* CachedLineRange.tryToExpandEnd(newNode, newOffset, checkRectangleGrew) of
\* part_002.
tryToExpandEndMemo(d, M, newNode, newOffset, checkRectangleGrew) ==
    Bind(IF checkRectangleGrew THEN getBoundingClientRectMemo(d, M)
         ELSE [M |-> M, rect |-> NoRect], LAMBDA p :
    Bind(GrowthRefused(d, setEndMemo(p.M, newNode, newOffset), p.rect,
                       checkRectangleGrew), LAMBDA r :
      IF r.result
      THEN [L |-> setEndMemo(r.M, M.ec, M.eo), ok |-> FALSE]
      ELSE [L |-> r.M, ok |-> TRUE]))

\* CachedLineRange.tryToExpandStart(newNode, newOffset, checkRectangleGrew)
\* of part_002.
tryToExpandStartMemo(d, M, newNode, newOffset, checkRectangleGrew) ==
    Bind(IF checkRectangleGrew THEN getBoundingClientRectMemo(d, M)
         ELSE [M |-> M, rect |-> NoRect], LAMBDA p :
    Bind(GrowthRefused(d, setStartMemo(p.M, newNode, newOffset), p.rect,
                       checkRectangleGrew), LAMBDA r :
      IF r.result
      THEN [L |-> setStartMemo(r.M, M.sc, M.so), ok |-> FALSE]
      ELSE [L |-> r.M, ok |-> TRUE]))

\* isPointOutsideHighlightedLine(x, y) of part_002, with the range as the
\* call leaves it.
isPointOutsideHighlightedLineMemo(d, M, x, y) ==
    IF Collapsed(M) THEN [M |-> M, outside |-> TRUE]
    ELSE Bind(getBoundingClientRectMemo(d, M), LAMBDA g :
           [M |-> g.M, outside |-> ~isInsideRect(g.rect, x, y)])

\* One iteration of the loops of updateHighlightLineRangeEnd(oneChar) of
\* part_002 (lines 551-622).  check: its variable checkRectangleGrew.
LineEndStepMemo(d, st, oneChar) ==
    IF st.offset < Length(d, st.node)
    THEN IF isWhitespaceOrZeroWidth(CharAt(d, st.node, st.offset))
         THEN [st EXCEPT !.offset = @ + 1]
         ELSE Bind(tryToExpandEndMemo(d, st.L, st.node, st.offset + 1,
                                      st.check), LAMBDA t :
           IF ~t.ok
           THEN [st EXCEPT !.L = t.L, !.offset = @ + 1, !.done = TRUE]
           ELSE [st EXCEPT !.L = t.L, !.offset = @ + 1, !.check = FALSE,
                           !.done = oneChar, !.ret = oneChar])
    ELSE Bind(NextNodeWalkMemo(d, st.node), LAMBDA nextTextNode :
           IF nextTextNode = Null THEN [st EXCEPT !.done = TRUE]
           ELSE [st EXCEPT !.node = nextTextNode, !.offset = 0,
                           !.check = TRUE])

updateHighlightLineRangeEndMemo(d, M, oneChar) ==
    Iterate(LAMBDA st : LineEndStepMemo(d, st, oneChar),
            [L |-> M, node |-> M.ec, offset |-> M.eo, check |-> FALSE,
             done |-> FALSE, ret |-> FALSE],
            LoopBound(d))

\* Lines 484-499 of part_002: the previous sibling of the nearest ancestor
\* that has one with a box.
RECURSIVE PreviousUncleMemo(_, _)
PreviousUncleMemo(d, parent) ==
    IF IsBody(d, parent) THEN Null
    ELSE IF previousSibling(d, parent) # Null
            /\ occupiesSpace(d, previousSibling(d, parent))
    THEN previousSibling(d, parent)
    ELSE PreviousUncleMemo(d, parentElement(d, parent))

\* Lines 480-509 of part_002: the text node its start scan continues in.
RECURSIVE PreviousNodeWalkMemo(_, _)
PreviousNodeWalkMemo(d, currentNode) ==
    Bind(IF previousSibling(d, currentNode) # Null
            /\ occupiesSpace(d, previousSibling(d, currentNode))
         THEN previousSibling(d, currentNode)
         ELSE PreviousUncleMemo(d, parentElement(d, currentNode)),
         LAMBDA previousNode :
      IF previousNode = Null THEN Null
      ELSE Bind(getLastNonEmptyTextNode(d, previousNode),
                LAMBDA lastTextNode :
        IF lastTextNode = Null THEN PreviousNodeWalkMemo(d, previousNode)
        ELSE lastTextNode))

\* One iteration of the loops of updateHighlightLineRangeStart(oneChar) of
\* part_002 (lines 455-536).
LineStartStepMemo(d, st, oneChar) ==
    IF st.offset > 0
    THEN IF isWhitespaceOrZeroWidth(CharAt(d, st.node, st.offset - 1))
         THEN [st EXCEPT !.offset = @ - 1]
         ELSE Bind(tryToExpandStartMemo(d, st.L, st.node, st.offset - 1,
                                        FALSE), LAMBDA t :
           IF ~t.ok
           THEN [st EXCEPT !.L = t.L, !.offset = @ - 1, !.done = TRUE]
           ELSE [st EXCEPT !.L = t.L, !.offset = @ - 1,
                           !.done = oneChar, !.ret = oneChar])
    ELSE Bind(PreviousNodeWalkMemo(d, st.node), LAMBDA lastTextNode :
      IF lastTextNode = Null THEN [st EXCEPT !.done = TRUE]
      ELSE Bind(Length(d, lastTextNode) - 1, LAMBDA lastCharIdx :
        IF isWhitespaceOrZeroWidth(CharAt(d, lastTextNode, lastCharIdx))
        THEN [st EXCEPT !.node = lastTextNode, !.offset = lastCharIdx]
        ELSE Bind(tryToExpandStartMemo(d, st.L, lastTextNode, lastCharIdx,
                                       TRUE), LAMBDA t :
          IF ~t.ok THEN [st EXCEPT !.L = t.L, !.done = TRUE]
          ELSE [st EXCEPT !.L = t.L, !.node = lastTextNode,
                          !.offset = lastCharIdx,
                          !.done = oneChar, !.ret = oneChar])))

updateHighlightLineRangeStartMemo(d, M, oneChar) ==
    Iterate(LAMBDA st : LineStartStepMemo(d, st, oneChar),
            [L |-> M, node |-> M.sc, offset |-> M.so,
             done |-> FALSE, ret |-> FALSE],
            LoopBound(d))

\* Lines 411-414 of part_002, one iteration of the do-while loop.
AlternateStepMemo(d, st) ==
    Bind(updateHighlightLineRangeEndMemo(d, st.L, TRUE), LAMBDA e :
    Bind(updateHighlightLineRangeStartMemo(d, e.L, TRUE), LAMBDA s :
      [L |-> s.L, keepGoingStart |-> s.ret, keepGoingEnd |-> e.ret,
       done |-> ~(s.ret /\ e.ret)]))

\* Lines 408-422 of part_002: the alternation and the greedy expansion.
ExpandLineMemo(d, M) ==
    Bind(Iterate(LAMBDA st : AlternateStepMemo(d, st),
                 [L |-> M, keepGoingStart |-> TRUE, keepGoingEnd |-> TRUE,
                  done |-> FALSE],
                 LoopBound(d)), LAMBDA a :
    Bind(IF a.keepGoingStart
         THEN updateHighlightLineRangeStartMemo(d, a.L, FALSE).L
         ELSE a.L, LAMBDA s :
      IF a.keepGoingEnd
      THEN updateHighlightLineRangeEndMemo(d, s, FALSE).L
      ELSE s))

\* setHighlightLineRange(caretPosition, mouseY) of part_002.
setHighlightLineRangeMemo(d, M, cp, mouseY) ==
    IF ~IsTextCaret(d, cp) THEN [L |-> M, threw |-> FALSE]
    ELSE Bind(Min(cp.offset, Length(d, cp.node) - 1), LAMBDA startOffset :
      IF startOffset < 0
      THEN [L |-> invalidateBoundingClientRectangle(M), threw |-> TRUE]
      ELSE Bind(getBoundingClientRectMemo(d,
                    setEndMemo(setStartMemo(M, cp.node, startOffset),
                               cp.node, startOffset + 1)), LAMBDA g :
        IF SeedOffLine(g.rect, mouseY)
        THEN [L |-> collapseMemo(g.M), threw |-> FALSE]
        ELSE IF Len(getClientRects(d, g.M)) > 1
        THEN [L |-> collapseMemo(g.M), threw |-> FALSE]
        ELSE Bind(ExpandLineMemo(d, resetLinesSpannedChecksCount(g.M)),
                  LAMBDA expanded :
          [L |-> IF SeedOnEdgeWhitespace(d, expanded, cp, startOffset)
                 THEN collapseMemo(expanded) ELSE expanded,
           threw |-> FALSE])))

\* Faulty variant: the line check starts with the cache as it is.
LineCheckMemoKeepCache(d, M, x, y, cp) ==
    Bind(isPointOutsideHighlightedLineMemo(d, M, x, y), LAMBDA o :
      IF ~o.outside
      THEN [L |-> o.M, lineBranch |-> FALSE, threw |-> FALSE]
      ELSE Bind(setHighlightLineRangeMemo(d, collapseMemo(o.M), cp, y),
                LAMBDA r :
        IF r.threw THEN [L |-> r.L, lineBranch |-> TRUE, threw |-> TRUE]
        ELSE Bind(isPointOutsideHighlightedLineMemo(d, r.L, x, y),
                  LAMBDA o2 :
          [L |-> IF o2.outside THEN collapseMemo(o2.M) ELSE o2.M,
           lineBranch |-> TRUE, threw |-> FALSE])))

\* Lines 679-705 of part_002: the line check of pointerMoveHandler, which
\* empties the cache first.
LineCheckMemo(d, M, x, y, cp) ==
    Bind(isPointOutsideHighlightedLineMemo(
             d, invalidateBoundingClientRectangle(M), x, y), LAMBDA o :
      IF ~o.outside
      THEN [L |-> o.M, lineBranch |-> FALSE, threw |-> FALSE]
      ELSE Bind(setHighlightLineRangeMemo(d, collapseMemo(o.M), cp, y),
                LAMBDA r :
        IF r.threw THEN [L |-> r.L, lineBranch |-> TRUE, threw |-> TRUE]
        ELSE Bind(isPointOutsideHighlightedLineMemo(d, r.L, x, y),
                  LAMBDA o2 :
          [L |-> IF o2.outside THEN collapseMemo(o2.M) ELSE o2.M,
           lineBranch |-> TRUE, threw |-> FALSE])))

\* pointerMoveHandler(event) of part_002.  The counts of cache hits start
\* at 0 with the handler.
pointerMoveHandlerMemo(d, W, M, x, y, cp) ==
    Bind(isPointOutsideHighlightedWord(d, W, x, y), LAMBDA wordOutside :
    Bind(IF wordOutside THEN WordBranch(d, W, x, y, cp)
         ELSE [res |-> W, W |-> W], LAMBDA wb :
    Bind(LineCheckMemo(d, [M EXCEPT !.cacheHits = 0, !.staleHits = 0],
                       x, y, cp), LAMBDA lc :
      [W |-> wb.W, L |-> lc.L, wordBranch |-> wordOutside,
       lineBranch |-> lc.lineBranch, wordRes |-> wb.res, lineRes |-> lc.L,
       threw |-> lc.threw,
       hitTests |-> IF wordOutside \/ lc.lineBranch THEN 1 ELSE 0])))

\* pointerLeaveHandler() of part_002.
pointerLeaveHandlerMemo(W, M) == [W |-> collapse(W), L |-> collapseMemo(M)]

\* ------------------------------------------------------------- toggle script

StyleFields ==
    {"lineBackgroundColor", "lineTextColor",
     "wordBackgroundColor", "wordTextColor"}

\* The custom property each field of hoverHighlighterArgs is written to.
PropertyOf(field) ==
    CASE field = "lineBackgroundColor" ->
            "--hover_highlighter-line_background_color"
      [] field = "lineTextColor" -> "--hover_highlighter-line_text_color"
      [] field = "wordBackgroundColor" ->
            "--hover_highlighter-word_background_color"
      [] field = "wordTextColor" -> "--hover_highlighter-word_text_color"

\* window.hoverHighlighterArgs when the script runs: undefined, or an object
\* given by the set of its fields that hold a color.
Undefined == [defined |-> FALSE, fields |-> {}]

ColorSets == SUBSET StyleFields

ArgsValues ==
    {Undefined} \cup {[defined |-> TRUE, fields |-> f] : f \in ColorSets}

\* Faulty variant: a property is never removed.
updatePropertySetOnly(props, field, args) ==
    IF field \in args.fields THEN props \cup {PropertyOf(field)} ELSE props

\* updateProperty(propertyName, propertyValue) on documentElement.style.
updateProperty(props, field, args) ==
    IF field \in args.fields THEN props \cup {PropertyOf(field)}
    ELSE props \ {PropertyOf(field)}

\* Lines 804-807: the four updateProperty calls.
ApplyArgs(props, args) ==
    updateProperty(
      updateProperty(
        updateProperty(
          updateProperty(props, "lineBackgroundColor", args),
          "lineTextColor", args),
        "wordBackgroundColor", args),
      "wordTextColor", args)

\* Faulty variant: a new key is put before the keys already there.
HighlightsSetFirst(h, key, owner) ==
    IF \E k \in 1..Len(h) : h[k].key = key
    THEN [k \in 1..Len(h) |->
            IF h[k].key = key THEN [key |-> key, owner |-> owner] ELSE h[k]]
    ELSE <<[key |-> key, owner |-> owner]>> \o h

\* CSS.highlights (a Map): set keeps the place of a key already there.
HighlightsSet(h, key, owner) ==
    IF \E k \in 1..Len(h) : h[k].key = key
    THEN [k \in 1..Len(h) |->
            IF h[k].key = key THEN [key |-> key, owner |-> owner] ELSE h[k]]
    ELSE Append(h, [key |-> key, owner |-> owner])

\* Faulty variant: the registry keeps the entry.
HighlightsDeleteNothing(h, key) == h

\* CSS.highlights.delete(key)
HighlightsDelete(h, key) == SelectSeq(h, LAMBDA e : e.key # key)

HighlightKeys(h) == {h[k].key : k \in 1..Len(h)}

\* ---------------------------------------------------------------- documents

\* A run of characters laid out left to right from x0 on one visual line,
\* one unit wide each.
Txt(s, x0, top, h) ==
    [i \in 1..Len(s) |-> [ch |-> s[i], rects |-> <<Rect(x0 + i - 1, top, 1, h)>>]]

\* Characters that are not rendered (inside display: none).
Hidden(s) == [i \in 1..Len(s) |-> [ch |-> s[i], rects |-> <<>>]]

\* <p>abc def</p>, wrapped before "def".
DocAbcDef ==
    [kind   |-> <<"body", "element", "text">>,
     parent |-> <<0, 1, 2>>,
     occ    |-> <<TRUE, TRUE, TRUE>>,
     text   |-> << <<>>, <<>>,
                   Txt(<<"a", "b", "c", " ">>, 0, 0, 2)
                     \o Txt(<<"d", "e", "f">>, 0, 3, 2) >>]

\* <p>long_identifier</p> on one line (demo.html, the underscore test).
DocIdentifier ==
    [kind   |-> <<"body", "element", "text">>,
     parent |-> <<0, 1, 2>>,
     occ    |-> <<TRUE, TRUE, TRUE>>,
     text   |-> << <<>>, <<>>,
                   Txt(<<"l", "o", "n", "g", "_", "i", "d", "e", "n", "t",
                         "i", "f", "i", "e", "r">>, 0, 0, 2) >>]

\* A word split over sibling text nodes with empty text nodes in between
\* (demo.html, the paragraph populated by write()).
DocSplit ==
    [kind   |-> <<"body", "element", "text", "text", "text", "text", "text">>,
     parent |-> <<0, 1, 2, 2, 2, 2, 2>>,
     occ    |-> <<TRUE, TRUE, TRUE, TRUE, TRUE, TRUE, TRUE>>,
     text   |-> << <<>>, <<>>, <<>>,
                   Txt(<<"a">>, 0, 0, 2), <<>>, Txt(<<"b">>, 1, 0, 2), <<>> >>]

\* The same word without the empty text nodes around it: 'a', '', 'b'.
DocSplitBare ==
    [kind   |-> <<"body", "element", "text", "text", "text">>,
     parent |-> <<0, 1, 2, 2, 2>>,
     occ    |-> <<TRUE, TRUE, TRUE, TRUE, TRUE>>,
     text   |-> << <<>>, <<>>,
                   Txt(<<"a">>, 0, 0, 2), <<>>, Txt(<<"b">>, 1, 0, 2) >>]

\* <p>a <em>b</em><span hidden>x</span><!-- --> c</p>, wrapped before "c".
DocInline ==
    [kind   |-> <<"body", "element", "text", "element", "text", "element",
                  "text", "comment", "text">>,
     parent |-> <<0, 1, 2, 2, 4, 2, 6, 2, 2>>,
     occ    |-> <<TRUE, TRUE, TRUE, TRUE, TRUE, FALSE, TRUE, TRUE, TRUE>>,
     text   |-> << <<>>, <<>>,
                   Txt(<<"a", " ">>, 0, 0, 2),
                   <<>>, Txt(<<"b">>, 2, 0, 2),
                   <<>>, Hidden(<<"x">>),
                   <<>>,
                   Txt(<<" ">>, 3, 0, 2) \o Txt(<<"c">>, 0, 3, 2) >>]

\* <pre> a b </pre>: rendered leading, inner and trailing whitespace.
DocSpace ==
    [kind   |-> <<"body", "element", "text">>,
     parent |-> <<0, 1, 2>>,
     occ    |-> <<TRUE, TRUE, TRUE>>,
     text   |-> << <<>>, <<>>,
                   Txt(<<" ", "a", " ", "b", " ">>, 0, 0, 2) >>]

\* Irregular geometry: a zero-width space, a character with a zero-height
\* rectangle, a taller character, and a character reported with two
\* rectangles (the one after a hyphenation break).
DocGeometry ==
    [kind   |-> <<"body", "element", "text", "text">>,
     parent |-> <<0, 1, 2, 2>>,
     occ    |-> <<TRUE, TRUE, TRUE, TRUE>>,
     text   |-> << <<>>, <<>>,
                   << [ch |-> "a", rects |-> <<Rect(0, 0, 1, 2)>>],
                      [ch |-> "zwsp", rects |-> <<Rect(1, 0, 0, 2)>>],
                      [ch |-> "b", rects |-> <<Rect(1, 0, 1, 3)>>],
                      [ch |-> "c", rects |-> <<Rect(2, 2, 1, 0)>>] >>,
                   << [ch |-> "-", rects |-> <<Rect(2, 0, 1, 2)>>],
                      [ch |-> "d", rects |-> <<Rect(3, 0, 1, 2),
                                               Rect(0, 3, 1, 2)>>],
                      [ch |-> "e", rects |-> <<Rect(1, 3, 1, 2)>>] >> >>]

\* <body>hi</body>.
DocHi ==
    [kind   |-> <<"body", "text">>,
     parent |-> <<0, 1>>,
     occ    |-> <<TRUE, TRUE>>,
     text   |-> << <<>>, Txt(<<"h", "i">>, 0, 0, 2) >>]

\* <pre>xxxxxxxxxxxxxxxxxxx xxx...</pre>: one visual line of LongLineLength
\* characters, more of them rendered non-whitespace characters than
\* MAX_LINES_SPANNED_CHECKS, with a space at every twentieth place.
LongLineLength == 120

LongLine == [i \in 1..LongLineLength |-> IF i % 20 = 0 THEN " " ELSE "x"]

DocLong ==
    [kind   |-> <<"body", "element", "text">>,
     parent |-> <<0, 1, 2>>,
     occ    |-> <<TRUE, TRUE, TRUE>>,
     text   |-> << <<>>, <<>>, Txt(LongLine, 0, 0, 2) >>]

\* <p>Tac</p> with a tall first character and a lowered last one: a
\* capital, a letter and a subscript on one visual line.
DocStagger ==
    [kind   |-> <<"body", "element", "text">>,
     parent |-> <<0, 1, 2>>,
     occ    |-> <<TRUE, TRUE, TRUE>>,
     text   |-> << <<>>, <<>>,
                   << [ch |-> "T", rects |-> <<Rect(0, 0, 1, 3)>>],
                      [ch |-> "a", rects |-> <<Rect(1, 0, 1, 2)>>],
                      [ch |-> "c", rects |-> <<Rect(2, 1, 1, 2)>>] >> >>]

\* <p><em>a</em><span hidden>x</span>b</p> on one line: an element without
\* a box between two letters.
DocHidden ==
    [kind   |-> <<"body", "element", "element", "text", "element", "text",
                  "text">>,
     parent |-> <<0, 1, 2, 3, 2, 5, 2>>,
     occ    |-> <<TRUE, TRUE, TRUE, TRUE, FALSE, TRUE, TRUE>>,
     text   |-> << <<>>, <<>>, <<>>, Txt(<<"a">>, 0, 0, 2),
                   <<>>, Hidden(<<"x">>), Txt(<<"b">>, 1, 0, 2) >>]

\* <p>a<big>B</big></p> on one line, tops aligned: the second letter is
\* 1.74 times as tall as the first.
DocBand ==
    [kind   |-> <<"body", "element", "text", "element", "text">>,
     parent |-> <<0, 1, 2, 2, 4>>,
     occ    |-> <<TRUE, TRUE, TRUE, TRUE, TRUE>>,
     text   |-> << <<>>, <<>>,
                   << [ch |-> "a", rects |-> <<Rect(0, 0, 1, 50)>>] >>,
                   <<>>,
                   << [ch |-> "B", rects |-> <<Rect(1, 0, 1, 87)>>] >> >>]

\* The pages the pointer events are explored on, and the pages the two
\* resolvers are applied to.
Docs == {DocSplit, DocSpace, DocGeometry}

ResolveDocs ==
    {DocAbcDef, DocIdentifier, DocSplit, DocSplitBare, DocInline, DocSpace,
     DocGeometry, DocLong, DocStagger, DocHidden, DocBand}

\* The answers document.caretPositionFromPoint can give: none, a text node
\* with an offset in [0, length], or an element.
CaretPositions(d) ==
    {NoCaret}
    \cup UNION {{[node |-> n, offset |-> o] : o \in 0..Length(d, n)} :
                 n \in {m \in Nodes(d) : IsTextNode(d, m)}}
    \cup {[node |-> n, offset |-> 0] :
            n \in {m \in Nodes(d) : IsElementNode(d, m)}}

\* -------------------------------------------------------------------- state

VARIABLES
    doc,                    \* the page's content tree and layout
    highlightWordRange,     \* of the script run that last took the
    highlightLineRange,     \*   activation branch (run number `closures`)
    closures,               \* number of runs that took the activation branch
    hoverHighlighterInfo,   \* window.hoverHighlighterInfo: Null, or the run
                            \*   whose handlers it holds
    pointermoveListeners,   \* runs whose pointerMoveHandler is installed
    pointerleaveListeners,  \* runs whose pointerLeaveHandler is installed
    highlights,             \* CSS.highlights, in insertion order
    styleProperties,        \* custom properties set on documentElement.style
    pending,                \* the pointermove event dispatched by the browser
                            \*   whose listeners have not run yet
    last,                   \* what the last operation did and returned
    tab,                    \* the browser tab of the page: its URL, the
                            \*   page's window.hoverHighlighterArgs, and what
                            \*   the extension set on it
    worker                  \* the service worker: its version and the
                            \*   invocations of its onClicked listener

vars == <<doc, highlightWordRange, highlightLineRange, closures,
          hoverHighlighterInfo, pointermoveListeners, pointerleaveListeners,
          highlights, styleProperties, pending, last, tab, worker>>

pageVars == <<closures, hoverHighlighterInfo, pointermoveListeners,
              pointerleaveListeners, highlights, styleProperties,
              tab, worker>>

NoPending == [kind |-> "none", x |-> 0, y |-> 0, cp |-> NoCaret]

NoEvent ==
    [op |-> "load", handled |-> FALSE, caretPosition |-> NoCaret,
     wordBranch |-> FALSE, lineBranch |-> FALSE,
     wordRes |-> createRange, lineRes |-> newCachedLineRange,
     threw |-> FALSE, terminated |-> TRUE, trace |-> NoTrace,
     hitTests |-> 0, result |-> "none",
     wasActive |-> FALSE, args |-> Undefined]

AllColors == [defined |-> TRUE, fields |-> StyleFields]

\* A tab address, as its scheme, the separator and the rest.
PageUrl == <<"https", "://", "example.org/demo.html">>

\* The tab before the first click and after a first click whose handler
\* (src/service-worker.js) has completed.
FreshTab(url) ==
    [url |-> url, hoverHighlighterArgs |-> Undefined,
     css |-> FALSE, title |-> "default", badgeText |-> ""]

ActiveTab ==
    [url |-> PageUrl, hoverHighlighterArgs |-> AllColors,
     css |-> TRUE, title |-> "Hover Highlighter (ON)", badgeText |-> "ON"]

\* The service worker with no invocation of its listener in progress.
\* passesArgs: it is src/service-worker.js, which assigns
\* window.hoverHighlighterArgs before it injects the script; otherwise it is
\* part_000.
IdleWorker(passesArgs) == [passesArgs |-> passesArgs, handlers |-> <<>>]

\* The page before the script ever ran.
InitPage(D) ==
    /\ tab = FreshTab(PageUrl)
    /\ worker = IdleWorker(TRUE)
    /\ doc \in D
    /\ highlightWordRange = createRange
    /\ highlightLineRange = newCachedLineRange
    /\ closures = 0
    /\ hoverHighlighterInfo = Null
    /\ pointermoveListeners = {}
    /\ pointerleaveListeners = {}
    /\ highlights = <<>>
    /\ styleProperties = {}
    /\ pending = NoPending
    /\ last = NoEvent

\* Lines 86-102: the script run with window.hoverHighlighterInfo present.
TurnOff ==
    LET left == pointerLeaveHandler(highlightWordRange, highlightLineRange)
    IN  /\ pending = NoPending
        /\ hoverHighlighterInfo # Null
        /\ pointermoveListeners' = pointermoveListeners \ {hoverHighlighterInfo}
        /\ pointerleaveListeners' =
              pointerleaveListeners \ {hoverHighlighterInfo}
        /\ highlightWordRange' = left.W
        /\ highlightLineRange' = left.L
        /\ hoverHighlighterInfo' = Null
        /\ highlights' =
              HighlightsDelete(HighlightsDelete(highlights,
                                                CSS_HIGHLIGHT_WORD_KEY),
                               CSS_HIGHLIGHT_LINE_KEY)
        /\ last' = [NoEvent EXCEPT !.op = "toggle", !.result = "false",
                                   !.wasActive = TRUE]
        /\ UNCHANGED <<doc, closures, styleProperties, pending>>

\* Lines 104-819: the script run with window.hoverHighlighterInfo absent and
\* window.hoverHighlighterArgs = args.  Reading a field of undefined at line
\* 804 raises a TypeError, after the highlights and listeners are in place.
TurnOn(args) ==
    /\ pending = NoPending
    /\ hoverHighlighterInfo = Null
    /\ closures < MaxClosures
    /\ closures' = closures + 1
    /\ highlightWordRange' = createRange
    /\ highlightLineRange' = newCachedLineRange
    /\ highlights' =
          HighlightsSet(HighlightsSet(highlights, CSS_HIGHLIGHT_LINE_KEY,
                                      closures + 1),
                        CSS_HIGHLIGHT_WORD_KEY, closures + 1)
    /\ pointermoveListeners' = pointermoveListeners \cup {closures + 1}
    /\ pointerleaveListeners' = pointerleaveListeners \cup {closures + 1}
    /\ IF args = Undefined
       THEN /\ UNCHANGED <<styleProperties, hoverHighlighterInfo>>
            /\ last' = [NoEvent EXCEPT !.op = "toggle", !.threw = TRUE,
                                       !.result = "TypeError"]
       ELSE /\ styleProperties' = ApplyArgs(styleProperties, args)
            /\ hoverHighlighterInfo' = closures + 1
            /\ last' = [NoEvent EXCEPT !.op = "toggle", !.result = "true",
                                       !.args = args]
    /\ UNCHANGED <<doc, pending>>

\* One run of the injected script.
Toggle ==
    /\ TurnOff \/ \E args \in ArgsValues : TurnOn(args)
    /\ UNCHANGED <<tab, worker>>

\* The browser dispatches a pointermove event at (x, y); cp is what the
\* hit-test (caretPositionFromPoint) answers for that point during the event.
PointerMoved ==
    /\ pending = NoPending
    /\ \E x \in 0..MaxX, y \in 0..MaxY, cp \in CaretPositions(doc) :
          pending' = [kind |-> "pointermove", x |-> x, y |-> y, cp |-> cp]
    /\ UNCHANGED <<doc, highlightWordRange, highlightLineRange, pageVars,
                   last>>

\* The listeners of the dispatched pointermove event run: pointerMoveHandler
\* of the run whose ranges are registered, if it is installed.
PointerMove ==
    /\ pending.kind = "pointermove"
    /\ pending' = NoPending
    /\ IF closures \in pointermoveListeners
       THEN \E h \in {pointerMoveHandler(doc, highlightWordRange,
                                         highlightLineRange,
                                         pending.x, pending.y, pending.cp)} :
              /\ highlightWordRange' = h.W
              /\ highlightLineRange' = h.L
              /\ last' = [NoEvent EXCEPT
                            !.op = "pointermove", !.handled = TRUE,
                            !.caretPosition =
                                IF h.hitTests > 0 THEN pending.cp ELSE NoCaret,
                            !.wordBranch = h.wordBranch,
                            !.lineBranch = h.lineBranch,
                            !.wordRes = h.wordRes, !.lineRes = h.lineRes,
                            !.threw = h.threw,
                            !.terminated = h.terminated,
                            !.hitTests = h.hitTests]
              /\ UNCHANGED <<doc, pageVars>>
       ELSE /\ last' = [NoEvent EXCEPT !.op = "pointermove"]
            /\ UNCHANGED <<doc, highlightWordRange, highlightLineRange,
                           pageVars>>

\* A pointerleave event and its listener.
PointerLeave ==
    /\ pending = NoPending
    /\ IF closures \in pointerleaveListeners
       THEN \E left \in {pointerLeaveHandler(highlightWordRange,
                                             highlightLineRange)} :
              /\ highlightWordRange' = left.W
              /\ highlightLineRange' = left.L
              /\ last' = [NoEvent EXCEPT !.op = "pointerleave",
                                         !.handled = TRUE,
                                         !.wordRes = highlightWordRange,
                                         !.lineRes = highlightLineRange]
              /\ UNCHANGED <<doc, pageVars, pending>>
       ELSE /\ last' = [NoEvent EXCEPT !.op = "pointerleave"]
            /\ UNCHANGED <<doc, highlightWordRange, highlightLineRange,
                           pageVars, pending>>

\* The page right after the first run of the script, with all four colors
\* supplied (src/service-worker.js): the feature is active.
Init ==
    /\ tab = ActiveTab
    /\ worker = IdleWorker(TRUE)
    /\ doc \in Docs
    /\ highlightWordRange = createRange
    /\ highlightLineRange = newCachedLineRange
    /\ closures = 1
    /\ hoverHighlighterInfo = 1
    /\ pointermoveListeners = {1}
    /\ pointerleaveListeners = {1}
    /\ highlights =
          HighlightsSet(HighlightsSet(<<>>, CSS_HIGHLIGHT_LINE_KEY, 1),
                        CSS_HIGHLIGHT_WORD_KEY, 1)
    /\ styleProperties = ApplyArgs({}, AllColors)
    /\ pending = NoPending
    /\ last = [NoEvent EXCEPT !.op = "toggle", !.result = "true",
                              !.args = AllColors]

\* The pointer events of an active page.
Next == PointerMoved \/ PointerMove \/ PointerLeave

Spec == Init /\ [][Next]_vars

\* The two resolvers as pointerMoveHandler calls them, applied to a hit-test
\* answer and a pointer height drawn for the page.  Each works on its own
\* range only, so a behaviour exercises one of them: the other range stays
\* as constructed.  On the long line the answers are those at LongOffsets:
\* the two ends, both sides of a space, and places in between.
LongOffsets ==
    {0, 1, 18, 19, 20, 60, 100, LongLineLength - 1, LongLineLength}

Hits(d) ==
    {[kind |-> "hit", x |-> 0, y |-> y, cp |-> cp] :
       y \in 0..MaxY,
       cp \in IF d = DocLong
              THEN {[node |-> 3, offset |-> o] : o \in LongOffsets}
              ELSE CaretPositions(d)}

InitResolve ==
    /\ tab = ActiveTab
    /\ worker = IdleWorker(TRUE)
    /\ doc \in ResolveDocs
    /\ highlightWordRange = createRange
    /\ highlightLineRange = newCachedLineRange
    /\ closures = 1
    /\ hoverHighlighterInfo = 1
    /\ pointermoveListeners = {1}
    /\ pointerleaveListeners = {1}
    /\ highlights =
          HighlightsSet(HighlightsSet(<<>>, CSS_HIGHLIGHT_LINE_KEY, 1),
                        CSS_HIGHLIGHT_WORD_KEY, 1)
    /\ styleProperties = ApplyArgs({}, AllColors)
    /\ pending \in Hits(doc)
    /\ last = NoEvent

\* Another hit-test answer and pointer height.
NewHit ==
    /\ pending' \in Hits(doc)
    /\ last' = NoEvent
    /\ UNCHANGED <<doc, highlightWordRange, highlightLineRange, pageVars>>

\* Lines 726-730: the word range collapsed and resolved from the answer.
ResolveWord ==
    /\ highlightLineRange = newCachedLineRange
    /\ \E res \in {setHighlightWordRange(doc, collapse(highlightWordRange),
                                          pending.cp)} :
          /\ highlightWordRange' = res
          /\ last' = [NoEvent EXCEPT !.op = "setHighlightWordRange",
                                     !.caretPosition = pending.cp,
                                     !.wordRes = res]
    /\ UNCHANGED <<doc, highlightLineRange, pageVars, pending>>

\* Lines 754-765: the line range collapsed and resolved from the answer.
ResolveLine ==
    /\ highlightWordRange = createRange
    /\ \E r \in {setHighlightLineRange(doc, collapse(highlightLineRange),
                                        pending.cp, pending.y)} :
          /\ highlightLineRange' = r.L
          /\ last' = [NoEvent EXCEPT !.op = "setHighlightLineRange",
                                     !.caretPosition = pending.cp,
                                     !.lineRes = r.L, !.threw = r.threw,
                                     !.terminated = r.terminated,
                                     !.trace = r.trace]
    /\ UNCHANGED <<doc, highlightWordRange, pageVars, pending>>

NextResolve == NewHit \/ ResolveWord \/ ResolveLine

SpecResolve == InitResolve /\ [][NextResolve]_vars

\* The whole life cycle on a small page, from the page load on.
ToggleDocs == {DocHi}

InitToggle == InitPage(ToggleDocs)

NextToggle == Toggle \/ PointerMoved \/ PointerMove \/ PointerLeave

SpecToggle == InitToggle /\ [][NextToggle]_vars

\* The earlier version of the script (part_002) on an active page whose
\* content may be scrolled between two events.
MemoDocs == {DocAbcDef, DocHidden}

\* The page with its content moved down by dy.
ShiftDoc(d, dy) ==
    [d EXCEPT !.text =
        [n \in DOMAIN d.text |->
           [i \in DOMAIN d.text[n] |->
              [d.text[n][i] EXCEPT !.rects =
                  [k \in DOMAIN d.text[n][i].rects |->
                     [d.text[n][i].rects[k] EXCEPT !.top = @ + dy,
                                                   !.bottom = @ + dy]]]]]]

InitMemo ==
    /\ tab = ActiveTab
    /\ worker = IdleWorker(TRUE)
    /\ doc \in MemoDocs
    /\ highlightWordRange = createRange
    /\ highlightLineRange = newCachedLineRangeMemo
    /\ closures = 1
    /\ hoverHighlighterInfo = 1
    /\ pointermoveListeners = {1}
    /\ pointerleaveListeners = {1}
    /\ highlights =
          HighlightsSet(HighlightsSet(<<>>, CSS_HIGHLIGHT_LINE_KEY, 1),
                        CSS_HIGHLIGHT_WORD_KEY, 1)
    /\ styleProperties = ApplyArgs({}, AllColors)
    /\ pending = NoPending
    /\ last = [NoEvent EXCEPT !.op = "toggle", !.result = "true",
                              !.args = AllColors,
                              !.lineRes = newCachedLineRangeMemo]

\* The page is scrolled by one unit between two events: its layout changes,
\* the ranges and the cache stay as they are.
Scroll ==
    /\ pending = NoPending
    /\ doc' = IF doc \in MemoDocs THEN ShiftDoc(doc, 1) ELSE ShiftDoc(doc, -1)
    /\ last' = [NoEvent EXCEPT !.op = "scroll",
                               !.lineRes = highlightLineRange]
    /\ UNCHANGED <<highlightWordRange, highlightLineRange, pageVars, pending>>

\* The listener of the dispatched pointermove event runs: pointerMoveHandler
\* of part_002.
PointerMoveMemo ==
    /\ pending.kind = "pointermove"
    /\ pending' = NoPending
    /\ \E h \in {pointerMoveHandlerMemo(doc, highlightWordRange,
                                        highlightLineRange,
                                        pending.x, pending.y, pending.cp)} :
          /\ highlightWordRange' = h.W
          /\ highlightLineRange' = h.L
          /\ last' = [NoEvent EXCEPT
                        !.op = "pointermove", !.handled = TRUE,
                        !.caretPosition =
                            IF h.hitTests > 0 THEN pending.cp ELSE NoCaret,
                        !.wordBranch = h.wordBranch,
                        !.lineBranch = h.lineBranch,
                        !.wordRes = h.wordRes, !.lineRes = h.lineRes,
                        !.threw = h.threw, !.hitTests = h.hitTests]
    /\ UNCHANGED <<doc, pageVars>>

\* A pointerleave event and its listener of part_002.
PointerLeaveMemo ==
    /\ pending = NoPending
    /\ \E left \in {pointerLeaveHandlerMemo(highlightWordRange,
                                            highlightLineRange)} :
          /\ highlightWordRange' = left.W
          /\ highlightLineRange' = left.L
          /\ last' = [NoEvent EXCEPT !.op = "pointerleave", !.handled = TRUE,
                                     !.wordRes = highlightWordRange,
                                     !.lineRes = highlightLineRange]
    /\ UNCHANGED <<doc, pageVars, pending>>

NextMemo == PointerMoved \/ PointerMoveMemo \/ PointerLeaveMemo \/ Scroll

SpecMemo == InitMemo /\ [][NextMemo]_vars

\* ---------------------------------------------------------- service worker
\* src/src/service-worker.js, and its earlier version part_000, which injects
\* the script without assigning window.hoverHighlighterArgs first.

\* The addresses of the tabs the button is clicked on.
Urls ==
    {PageUrl, <<"file", "://", "/home/demo.html">>,
     <<"chrome", "://", "settings">>}

\* tab.url.startsWith('chrome://')
startsWithChrome(url) == SubSeq(url, 1, 2) = <<"chrome", "://">>

\* Faulty variant: the listener goes on whatever the address is.
onClickedEverywhere(passesArgs, url) ==
    [pc |-> IF passesArgs THEN "args" ELSE "inject",
     isTurnedOn |-> FALSE, calls |-> {}]

\* Lines 6-10 (part_000: 6-10): an invocation of the listener up to its
\* first await.  pc: the call it awaits (args: the executeScript that
\* assigns the arguments, inject: the executeScript of injected.js, update:
\* the calls of Promise.all), or done.  calls: the calls of Promise.all that
\* have not taken effect yet.
onClicked(passesArgs, url) ==
    IF startsWithChrome(url)
    THEN [pc |-> "done", isTurnedOn |-> FALSE, calls |-> {}]
    ELSE [pc |-> IF passesArgs THEN "args" ELSE "inject",
          isTurnedOn |-> FALSE, calls |-> {}]

\* Lines 31-54: the calls of Promise.all.
UpdateCalls == {"css", "title", "badgeText"}

\* The effect of one of them on the tab: insertCSS/removeCSS, setTitle,
\* setBadgeText.
ApplyCall(t, call, isTurnedOn) ==
    CASE call = "css" -> [t EXCEPT !.css = isTurnedOn]
      [] call = "title" ->
            [t EXCEPT !.title = IF isTurnedOn THEN "Hover Highlighter (ON)"
                                ELSE "Hover Highlighter (OFF)"]
      [] call = "badgeText" ->
            [t EXCEPT !.badgeText = IF isTurnedOn THEN "ON" ELSE ""]

\* The button is clicked: the listener is invoked with the tab.
Click ==
    /\ pending = NoPending
    /\ Len(worker.handlers) < MaxClicks
    /\ worker' = [worker EXCEPT
                    !.handlers = Append(@, onClicked(worker.passesArgs,
                                                     tab.url))]
    /\ last' = [NoEvent EXCEPT !.op = "click"]
    /\ UNCHANGED <<doc, highlightWordRange, highlightLineRange, closures,
                   hoverHighlighterInfo, pointermoveListeners,
                   pointerleaveListeners, highlights, styleProperties,
                   pending, tab>>

\* Lines 10-22: the function that assigns window.hoverHighlighterArgs runs
\* in the page, and invocation h goes on to inject the script.
AssignArgs(h) ==
    /\ worker.handlers[h].pc = "args"
    /\ tab' = [tab EXCEPT !.hoverHighlighterArgs = AllColors]
    /\ worker' = [worker EXCEPT !.handlers[h].pc = "inject"]
    /\ last' = [NoEvent EXCEPT !.op = "assign"]
    /\ UNCHANGED <<doc, highlightWordRange, highlightLineRange, closures,
                   hoverHighlighterInfo, pointermoveListeners,
                   pointerleaveListeners, highlights, styleProperties,
                   pending>>

\* Lines 26-54 (part_000: 10-38): injected.js runs in the page and its
\* result reaches invocation h, which issues the calls of Promise.all.  A
\* run that threw has no result: the promise of executeScript is fulfilled
\* with an undefined result or rejected, and a rejection ends the
\* invocation.
InjectScript(h) ==
    /\ worker.handlers[h].pc = "inject"
    /\ TurnOff \/ TurnOn(tab.hoverHighlighterArgs)
    /\ \E rejected \in IF last'.threw THEN BOOLEAN ELSE {FALSE} :
          worker' = [worker EXCEPT
                       !.handlers[h] =
                           IF rejected
                           THEN [pc |-> "done", isTurnedOn |-> FALSE,
                                 calls |-> {}]
                           ELSE [pc |-> "update",
                                 isTurnedOn |-> last'.result = "true",
                                 calls |-> UpdateCalls]]
    /\ tab' = tab

\* One of the calls of Promise.all of invocation h takes effect; the
\* invocation is over when all have.
CompleteCall(h, call) ==
    /\ worker.handlers[h].pc = "update"
    /\ call \in worker.handlers[h].calls
    /\ tab' = ApplyCall(tab, call, worker.handlers[h].isTurnedOn)
    /\ worker' = [worker EXCEPT
                    !.handlers[h].calls = @ \ {call},
                    !.handlers[h].pc =
                        IF worker.handlers[h].calls = {call} THEN "done"
                        ELSE "update"]
    /\ last' = [NoEvent EXCEPT !.op = "update"]
    /\ UNCHANGED <<doc, highlightWordRange, highlightLineRange, closures,
                   hoverHighlighterInfo, pointermoveListeners,
                   pointerleaveListeners, highlights, styleProperties,
                   pending>>

\* A tab on which the button was never clicked, with either version of the
\* service worker.
InitWorker ==
    /\ \E url \in Urls : tab = FreshTab(url)
    /\ \E passesArgs \in BOOLEAN : worker = IdleWorker(passesArgs)
    /\ doc \in ToggleDocs
    /\ highlightWordRange = createRange
    /\ highlightLineRange = newCachedLineRange
    /\ closures = 0
    /\ hoverHighlighterInfo = Null
    /\ pointermoveListeners = {}
    /\ pointerleaveListeners = {}
    /\ highlights = <<>>
    /\ styleProperties = {}
    /\ pending = NoPending
    /\ last = NoEvent

NextWorker ==
    \/ Click
    \/ \E h \in DOMAIN worker.handlers : AssignArgs(h)
    \/ \E h \in DOMAIN worker.handlers : InjectScript(h)
    \/ \E h \in DOMAIN worker.handlers :
          \E call \in UpdateCalls : CompleteCall(h, call)

SpecWorker == InitWorker /\ [][NextWorker]_vars


\* -------------------------------------------------------------- classifiers
\* isDelimiter and isWordChar of the two versions of the script, applied to
\* single characters.

Letters ==
    {"a", "b", "c", "d", "e", "f", "g", "h", "i", "j", "k", "l", "m", "n",
     "o", "p", "q", "r", "s", "t", "u", "v", "w", "x", "y", "z", "A", "Z",
     "0", "1", "9", "eacute", "cjk"}

Punctuation ==
    {"_", "-", "emdash", "endash", "/", "(", ")", "{", "}", "[", "]",
     ",", ".", ":", ";", "?", "!", "ellipsis",
     "'", "quote", "@", "#", "&", "*", "+", "=", "<", ">", "|", "backslash",
     "minus", "figuredash", "softhyphen"}

Chars == Letters \cup Punctuation \cup WhitespaceChars \cup FormatChars

Versions == {"part_001", "part_002"}

CharInputs ==
    {[kind |-> "char", char |-> c, version |-> v] :
       c \in Chars, v \in Versions}

InitClassify ==
    /\ tab = ActiveTab
    /\ worker = IdleWorker(TRUE)
    /\ doc \in ToggleDocs
    /\ highlightWordRange = createRange
    /\ highlightLineRange = newCachedLineRange
    /\ closures = 1
    /\ hoverHighlighterInfo = 1
    /\ pointermoveListeners = {1}
    /\ pointerleaveListeners = {1}
    /\ highlights =
          HighlightsSet(HighlightsSet(<<>>, CSS_HIGHLIGHT_LINE_KEY, 1),
                        CSS_HIGHLIGHT_WORD_KEY, 1)
    /\ styleProperties = ApplyArgs({}, AllColors)
    /\ pending \in CharInputs
    /\ last = NoEvent

\* Another character, for either version.
NewChar ==
    /\ pending' \in CharInputs
    /\ last' = NoEvent
    /\ UNCHANGED <<doc, highlightWordRange, highlightLineRange, pageVars>>

\* The two classifiers of the version applied to the character.
Classify ==
    /\ last' = [op |-> "classify", char |-> pending.char,
                version |-> pending.version,
                isDelimiter |-> IF pending.version = "part_001"
                                THEN isDelimiter(pending.char)
                                ELSE isDelimiterEarlier(pending.char),
                isWordChar |-> IF pending.version = "part_001"
                               THEN isWordChar(pending.char)
                               ELSE isWordCharEarlier(pending.char)]
    /\ UNCHANGED <<doc, highlightWordRange, highlightLineRange, pageVars,
                   pending>>

NextClassify == NewChar \/ Classify

SpecClassify == InitClassify /\ [][NextClassify]_vars

\* ------------------------------------------------------------------- claims

\* The characters <<node, index>> that lie inside range r.
CharsOf(d, r) ==
    {c \in UNION {{<<n, i>> : i \in 0..(Length(d, n) - 1)} :
                    n \in {m \in Nodes(d) : IsTextNode(d, m)}} :
       ~After(r.sc, r.so, c[1], c[2]) /\ After(r.ec, r.eo, c[1], c[2])}

\* The hit Position has a delimiter at its offset.
OnDelimiter(d, cp) ==
    cp.offset < Length(d, cp.node) /\ isDelimiter(CharAt(d, cp.node, cp.offset))

\* The nearest previous sibling of n that is not an empty text run.
PreviousRun(d, n) ==
    LET S == {m \in Nodes(d) :
                /\ d.parent[m] = d.parent[n] /\ m < n
                /\ ~(IsTextNode(d, m) /\ Length(d, m) = 0)}
    IN  IF S = {} THEN Null ELSE SetMax(S)

\* The clamped hit offset of a text Position, and whether the character
\* there is a whitespace or zero-width character.
SeedOffset(d, cp) == Min(cp.offset, Length(d, cp.node) - 1)

SeedIsWhitespace(d, cp) ==
    IsTextCaret(d, cp) /\ Length(d, cp.node) > 0
        /\ isWhitespaceOrZeroWidth(CharAt(d, cp.node, SeedOffset(d, cp)))

\* (x, y) lies inside rc, and rc has a positive width and a positive height.
Contains(rc, x, y) ==
    /\ rc.left <= x /\ x <= rc.right /\ rc.top <= y /\ y <= rc.bottom
    /\ rc.right > rc.left /\ rc.bottom > rc.top

\* The marker is absent and the handlers of the last activation are removed.
Deactivated ==
    hoverHighlighterInfo = Null /\ closures \notin pointermoveListeners

\* setHighlightWordRange ran on a text Position that is not on a delimiter.
WordResolved ==
    /\ last.op = "setHighlightWordRange"
    /\ IsTextCaret(doc, pending.cp) /\ ~OnDelimiter(doc, pending.cp)

\* The handler re-resolved the word from a Position on a delimiter.
DelimiterHit ==
    /\ last.op = "pointermove" /\ last.wordBranch
    /\ IsTextCaret(doc, last.caretPosition)
    /\ OnDelimiter(doc, last.caretPosition)

\* The pages of the split word, their text runs, and a resolution of the word
\* from a Position in a run from the first letter's to the last letter's.
SplitDocs == {DocSplit, DocSplitBare}

Runs(d) == {n \in Nodes(d) : IsTextNode(d, n)}

FirstLetterRun(d) == SetMin({n \in Runs(d) : Length(d, n) > 0})

LastLetterRun(d) == SetMax({n \in Runs(d) : Length(d, n) > 0})

SplitWordResolved ==
    /\ last.op = "setHighlightWordRange" /\ doc \in SplitDocs
    /\ pending.cp.node \in FirstLetterRun(doc)..LastLetterRun(doc)

\* The handler ran the hit-test and got no text Position.
NoTextHit ==
    /\ last.op = "pointermove" /\ last.handled /\ last.hitTests > 0
    /\ ~IsTextCaret(doc, last.caretPosition)

\* setHighlightLineRange ran on pending.cp and pending.y.
LineResolved == last.op = "setHighlightLineRange"

\* C1: every run of the script flips the state: run with the marker absent
\* it sets the marker and returns true, run with the marker present it
\* deletes the marker and returns false.
C1_ToggleFlips ==
    last.op = "toggle" =>
        IF last.wasActive
        THEN hoverHighlighterInfo = Null /\ last.result = "false"
        ELSE hoverHighlighterInfo # Null /\ last.result = "true"

\* C2: right after a deactivating run both ranges are collapsed, the
\* listeners of the deactivated run are removed, both highlight keys are
\* unregistered and the marker is absent; and while the page stays
\* deactivated a pointermove event changes neither range.
C2_DeactivationClears ==
    [][/\ (last'.op = "toggle" /\ last'.wasActive) =>
             /\ Collapsed(highlightWordRange')
             /\ Collapsed(highlightLineRange')
             /\ closures' \notin pointermoveListeners'
             /\ closures' \notin pointerleaveListeners'
             /\ CSS_HIGHLIGHT_WORD_KEY \notin HighlightKeys(highlights')
             /\ CSS_HIGHLIGHT_LINE_KEY \notin HighlightKeys(highlights')
             /\ hoverHighlighterInfo' = Null
       /\ (Deactivated /\ pending.kind = "pointermove") =>
             UNCHANGED <<highlightWordRange, highlightLineRange>>]_vars

\* A pointermove event went by after a deactivation.
C2_Witness ==
    /\ last.op = "pointermove" /\ ~last.handled
    /\ Deactivated /\ closures > 0
    /\ Collapsed(highlightWordRange) /\ Collapsed(highlightLineRange)
    /\ highlights = <<>>

\* C3: resolved from a text Position that is not on a delimiter, the word
\* range holds no delimiter, contains the Position, starts after a delimiter
\* or where the previous non-empty sibling is no text run ending in a word
\* character, and ends before a delimiter or where the run has no next
\* sibling text run; 'abc def' gives 'abc' and 'long_identifier' gives the
\* sub-token between the underscores.
C3_WordIsMaximalRun ==
    WordResolved =>
        LET r  == highlightWordRange
            cp == pending.cp
            p  == PreviousRun(doc, r.sc)
        IN  /\ IsTextNode(doc, r.sc) /\ IsTextNode(doc, r.ec)
            /\ \A c \in CharsOf(doc, r) : ~isDelimiter(CharAt(doc, c[1], c[2]))
            /\ ~After(r.sc, r.so, cp.node, cp.offset)
            /\ ~After(cp.node, cp.offset, r.ec, r.eo)
            /\ IF r.so > 0 THEN isDelimiter(CharAt(doc, r.sc, r.so - 1))
               ELSE \/ ~IsTextNode(doc, p)
                    \/ isDelimiter(CharAt(doc, p, Length(doc, p) - 1))
            /\ IF r.eo < Length(doc, r.ec)
               THEN isDelimiter(CharAt(doc, r.ec, r.eo))
               ELSE ~IsTextNode(doc, nextSibling(doc, r.ec))
            /\ (doc = DocAbcDef /\ cp.offset \in 0..2) =>
                  r = [sc |-> 3, so |-> 0, ec |-> 3, eo |-> 3]
            /\ (doc = DocIdentifier /\ cp.offset < 4) =>
                  r = [sc |-> 3, so |-> 0, ec |-> 3, eo |-> 4]
            /\ (doc = DocIdentifier /\ cp.offset > 4) =>
                  r = [sc |-> 3, so |-> 5, ec |-> 3, eo |-> 15]

\* 'identifier' resolved from a Position inside it.
C3_Witness ==
    /\ WordResolved /\ doc = DocIdentifier /\ pending.cp.offset = 7
    /\ highlightWordRange = [sc |-> 3, so |-> 5, ec |-> 3, eo |-> 15]

\* C4: when the handler re-resolves the word and the hit Position has a
\* delimiter at its offset, the word range is collapsed when the handler
\* returns; the hit-test ran once, and a line range that the same event
\* resolved is built around that Position.
C4_DelimiterCollapsesWordOnly ==
    DelimiterHit =>
        /\ Collapsed(highlightWordRange)
        /\ last.hitTests = 1
        /\ (last.lineBranch /\ ~Collapsed(last.lineRes)) =>
              <<last.caretPosition.node, last.caretPosition.offset>>
                  \in CharsOf(doc, last.lineRes)

\* A line highlighted by the event that collapsed the word on a delimiter.
C4_Witness ==
    /\ DelimiterHit /\ last.lineBranch
    /\ Collapsed(highlightWordRange) /\ ~Collapsed(highlightLineRange)

C6_PointerInsideHighlights ==
    [][(pending.kind = "pointermove" /\ last'.op = "pointermove"
        /\ last'.handled) =>
          /\ \/ Collapsed(highlightWordRange')
             \/ \E rc \in SeqRange(getClientRects(doc, highlightWordRange')) :
                   Contains(rc, pending.x, pending.y)
          /\ \/ Collapsed(highlightLineRange')
             \/ Contains(getBoundingClientRect(doc, highlightLineRange'),
                         pending.x, pending.y)]_vars

\* Both ranges resolved and kept on the page with irregular geometry.
C6_Witness ==
    /\ last.op = "pointermove" /\ last.wordBranch /\ last.lineBranch
    /\ doc = DocGeometry
    /\ ~Collapsed(highlightWordRange) /\ ~Collapsed(highlightLineRange)

\* C7: after pointerLeaveHandler ran both ranges are collapsed, whatever
\* they held before.
C7_LeaveCollapsesBoth ==
    (last.op = "pointerleave" /\ last.handled) =>
        Collapsed(highlightWordRange) /\ Collapsed(highlightLineRange)

\* The handler found a highlighted word and a highlighted line.
C7_Witness ==
    /\ last.op = "pointerleave" /\ last.handled
    /\ ~Collapsed(last.wordRes) /\ ~Collapsed(last.lineRes)
    /\ Collapsed(highlightWordRange) /\ Collapsed(highlightLineRange)

\* C8 as stated: when the hit-test of a pointermove event yields no text
\* Position, both ranges are collapsed when the handler returns.
C8_NoHitCollapsesBoth ==
    NoTextHit =>
        Collapsed(highlightWordRange) /\ Collapsed(highlightLineRange)

\* C8 as amended: when the hit-test yields no text Position, each range whose
\* geometry the pointer was outside of is collapsed when the handler returns.
C8_NoHitCollapsesOutsideRanges ==
    NoTextHit =>
        /\ last.wordBranch => Collapsed(highlightWordRange)
        /\ last.lineBranch => Collapsed(highlightLineRange)

\* No text under a pointer that is still inside the highlighted line.
C8_Witness ==
    /\ NoTextHit /\ last.wordBranch /\ ~last.lineBranch
    /\ Collapsed(highlightWordRange) /\ ~Collapsed(highlightLineRange)

\* C9: a line range that setHighlightLineRange leaves non-collapsed neither
\* starts nor ends on a whitespace or zero-width character.
C9_LineEdgesNotWhitespace ==
    (LineResolved /\ ~Collapsed(highlightLineRange)) =>
        LET L == highlightLineRange
        IN  /\ L.so < Length(doc, L.sc) /\ L.eo > 0
            /\ ~isWhitespaceOrZeroWidth(CharAt(doc, L.sc, L.so))
            /\ ~isWhitespaceOrZeroWidth(CharAt(doc, L.ec, L.eo - 1))

\* 'a b' resolved on the page ' a b '.
C9_Witness ==
    /\ LineResolved /\ doc = DocSpace
    /\ highlightLineRange.sc = 3 /\ highlightLineRange.so = 1
    /\ highlightLineRange.ec = 3 /\ highlightLineRange.eo = 4

\* C10 as stated: a whitespace or zero-width seed character leaves the line
\* range collapsed, whatever surrounds the seed.
C10_WhitespaceSeedCollapses ==
    (LineResolved /\ SeedIsWhitespace(doc, pending.cp)) =>
        Collapsed(highlightLineRange)

\* C10 as amended: a whitespace or zero-width seed character leaves the line
\* range collapsed unless the range grew on both sides of the seed: a
\* non-collapsed range starts before the seed and ends after it.
C10_EdgeWhitespaceSeedCollapses ==
    (LineResolved /\ SeedIsWhitespace(doc, pending.cp)) =>
        \/ Collapsed(highlightLineRange)
        \/ /\ After(pending.cp.node, SeedOffset(doc, pending.cp),
                    highlightLineRange.sc, highlightLineRange.so)
           /\ After(highlightLineRange.ec, highlightLineRange.eo,
                    pending.cp.node, SeedOffset(doc, pending.cp) + 1)

\* The leading space of ' a b ' under a pointer at the height of the line.
C10_Witness ==
    /\ LineResolved /\ doc = DocSpace
    /\ pending.cp = [node |-> 3, offset |-> 0] /\ pending.y = 1
    /\ Collapsed(highlightLineRange)

\* The non-whitespace characters inside range r.
NonWhitespaceIn(d, r) ==
    {c \in CharsOf(d, r) : ~isWhitespaceOrZeroWidth(CharAt(d, c[1], c[2]))}

\* Lines 440-459 let the resolution from cp at pointer height y through: a
\* text Position whose seed character has a rectangle with a height that
\* the pointer height lies in.
PassesSeedCheck(d, cp, y) ==
    /\ IsTextCaret(d, cp) /\ Length(d, cp.node) > 0
    /\ LET rect == SingleCharRect(d, cp.node, SeedOffset(d, cp))
       IN  Height(rect) # 0 /\ rect.top <= y /\ y <= rect.bottom

\* The range is made of whole characters of text nodes and holds the seed
\* character of cp.
GrownFromSeed(d, r, cp) ==
    /\ IsTextNode(d, r.sc) /\ r.so \in 0..(Length(d, r.sc) - 1)
    /\ IsTextNode(d, r.ec) /\ r.eo \in 1..Length(d, r.ec)
    /\ <<cp.node, SeedOffset(d, cp)>> \in CharsOf(d, r)

\* The two boundary points of a range.
Boundaries(r) == <<r.sc, r.so, r.ec, r.eo>>

\* C11: a line resolution accepts at most MAX_LINES_SPANNED_CHECKS probed
\* characters next to its seed; a resolution that passes the seed check
\* leaves the range, running bounds and probe counter that the same
\* resolution leaves on a newly constructed range, whatever the earlier
\* resolutions left behind; and with the counter above the budget every
\* tryToExpandEnd and tryToExpandStart call returns false and leaves the
\* range boundaries as they are.
C11_ProbeBudget ==
    LineResolved =>
        LET L  == highlightLineRange
            cp == pending.cp
        IN  /\ Cardinality(NonWhitespaceIn(doc, L))
                  <= MAX_LINES_SPANNED_CHECKS + 1
            /\ PassesSeedCheck(doc, cp, pending.y) =>
                  L = setHighlightLineRange(doc, newCachedLineRange, cp,
                                            pending.y).L
            /\ L.linesSpannedChecks > MAX_LINES_SPANNED_CHECKS =>
                  \A n \in Runs(doc) : \A o \in 1..Length(doc, n) :
                     /\ ~tryToExpandEnd(doc, L, n, o).ok
                     /\ ~tryToExpandStart(doc, L, n, o - 1).ok
                     /\ Boundaries(tryToExpandEnd(doc, L, n, o).L)
                           = Boundaries(L)
                     /\ Boundaries(tryToExpandStart(doc, L, n, o - 1).L)
                           = Boundaries(L)

\* The budget ran out on the long line: the seed and 105 more characters.
C11_Witness ==
    /\ LineResolved /\ doc = DocLong
    /\ highlightLineRange.linesSpannedChecks > MAX_LINES_SPANNED_CHECKS
    /\ Cardinality(NonWhitespaceIn(doc, highlightLineRange))
          = MAX_LINES_SPANNED_CHECKS + 1

\* C12: setHighlightLineRange ends for every page and every seed Position:
\* every loop of its scans returns, within as many iterations as the page has
\* characters and nodes, and the line range is then collapsed or a range of
\* whole characters around the seed, on a line longer than the budget too.
C12_LineResolutionTerminates ==
    LineResolved =>
        /\ last.terminated
        /\ \/ Collapsed(highlightLineRange)
           \/ GrownFromSeed(doc, highlightLineRange, pending.cp)

\* A partially expanded range on the long line, spaces passed on both sides.
C12_Witness ==
    /\ LineResolved /\ doc = DocLong /\ last.terminated
    /\ pending.cp = [node |-> 3, offset |-> 60]
    /\ highlightLineRange.linesSpannedChecks > MAX_LINES_SPANNED_CHECKS
    /\ highlightLineRange.so > 0
    /\ highlightLineRange.eo < LongLineLength
    /\ ~Collapsed(highlightLineRange)

\* pointerMoveHandler ran as a listener.
MoveHandled == last.op = "pointermove" /\ last.handled

\* A range of a text node's characters: boundaries in text nodes, within
\* their length, the start before the end.
WellFormed(d, r) ==
    /\ IsTextNode(d, r.sc) /\ r.so \in 0..Length(d, r.sc)
    /\ IsTextNode(d, r.ec) /\ r.eo \in 0..Length(d, r.ec)
    /\ After(r.ec, r.eo, r.sc, r.so)

\* C13: pointerMoveHandler never raises: whatever the hit-test answers (no
\* Position, a node that is no text node, a text node of any length with an
\* offset up to its length) it returns normally, with each range collapsed or
\* a non-collapsed range of text.
C13_HandlerNeverRaises ==
    MoveHandled =>
        /\ ~last.threw
        /\ Collapsed(highlightWordRange) \/ WellFormed(doc, highlightWordRange)
        /\ Collapsed(highlightLineRange) \/ WellFormed(doc, highlightLineRange)

\* Ranges r and q are both collapsed or have the same boundaries.
SameRange(r, q) ==
    (Collapsed(r) /\ Collapsed(q)) \/ Boundaries(r) = Boundaries(q)

\* C14: the two resolvers are idempotent: called again with the same
\* Position and pointer height on the range, running bounds and probe counter
\* that the first call left, setHighlightWordRange and setHighlightLineRange
\* leave the range boundaries of the first call; and those are the boundaries
\* the call gives on newly constructed ranges, whatever earlier calls left.
C14_ResolutionIdempotent ==
    /\ last.op = "setHighlightWordRange" =>
          /\ setHighlightWordRange(doc, highlightWordRange, pending.cp)
                = highlightWordRange
          /\ SameRange(highlightWordRange,
                       setHighlightWordRange(doc, createRange, pending.cp))
    /\ LineResolved =>
          /\ Boundaries(setHighlightLineRange(doc, highlightLineRange,
                                              pending.cp, pending.y).L)
                = Boundaries(highlightLineRange)
          /\ SameRange(highlightLineRange,
                       setHighlightLineRange(doc, newCachedLineRange,
                                             pending.cp, pending.y).L)

\* A line that used up the probe budget, about to be resolved again.
C14_Witness ==
    /\ LineResolved /\ doc = DocLong /\ ~Collapsed(highlightLineRange)
    /\ highlightLineRange.linesSpannedChecks > MAX_LINES_SPANNED_CHECKS
    /\ pending.cp = [node |-> 3, offset |-> 100]

\* The script ran and took the activation branch.
Activated == last.op = "toggle" /\ ~last.wasActive

\* C15: an activation registers the line range and then the word range, under
\* the two distinct keys 'hover-highlighter_line' and 'hover-highlighter_word';
\* while the marker is present exactly these two keys are registered, in that
\* order, with the ranges of the activation the marker names; a deactivation
\* leaves neither key registered.
C15_LineThenWordRegistered ==
    /\ CSS_HIGHLIGHT_LINE_KEY = "hover-highlighter_line"
    /\ CSS_HIGHLIGHT_WORD_KEY = "hover-highlighter_word"
    /\ Activated =>
          /\ Len(highlights) = 2
          /\ highlights[1] = [key |-> CSS_HIGHLIGHT_LINE_KEY, owner |-> closures]
          /\ highlights[2] = [key |-> CSS_HIGHLIGHT_WORD_KEY, owner |-> closures]
    /\ hoverHighlighterInfo # Null =>
          highlights =
              << [key |-> CSS_HIGHLIGHT_LINE_KEY, owner |-> hoverHighlighterInfo],
                 [key |-> CSS_HIGHLIGHT_WORD_KEY, owner |-> hoverHighlighterInfo] >>
    /\ (last.op = "toggle" /\ last.wasActive) => highlights = <<>>

\* The second activation of a page, after a deactivation.
C15_Witness ==
    /\ Activated /\ hoverHighlighterInfo = 2 /\ closures = 2
    /\ Len(highlights) = 2 /\ highlights[1].owner = 2

HitNonEmpty ==
    IsTextCaret(doc, last.caretPosition)
        /\ Length(doc, last.caretPosition.node) > 0

\* C17 as stated: after a pointermove event, a word range or line range that
\* is not collapsed has both boundaries in text nodes that are not empty.
C17_BoundariesInNonEmptyRuns ==
    MoveHandled =>
        /\ ~Collapsed(highlightWordRange) =>
              /\ IsTextNode(doc, highlightWordRange.sc)
              /\ IsTextNode(doc, highlightWordRange.ec)
              /\ Length(doc, highlightWordRange.sc) > 0
              /\ Length(doc, highlightWordRange.ec) > 0
        /\ ~Collapsed(highlightLineRange) =>
              /\ IsTextNode(doc, highlightLineRange.sc)
              /\ IsTextNode(doc, highlightLineRange.ec)
              /\ Length(doc, highlightLineRange.sc) > 0
              /\ Length(doc, highlightLineRange.ec) > 0

\* C17 as amended: after a pointermove event, a line range that is not
\* collapsed has both boundaries in text nodes that are not empty; a word
\* range that is not collapsed covers at least one character and has its
\* boundaries in sibling text nodes, its end boundary in an empty text node
\* only if no text node follows that node, and its start boundary in a text
\* node that is not empty whenever the event resolved the word from a hit in
\* a text node that is not empty.
C17_WordEndMayBeInEmptyRun ==
    MoveHandled =>
        /\ ~Collapsed(highlightLineRange) =>
              /\ IsTextNode(doc, highlightLineRange.sc)
              /\ IsTextNode(doc, highlightLineRange.ec)
              /\ Length(doc, highlightLineRange.sc) > 0
              /\ Length(doc, highlightLineRange.ec) > 0
        /\ ~Collapsed(highlightWordRange) =>
              /\ IsTextNode(doc, highlightWordRange.sc)
              /\ IsTextNode(doc, highlightWordRange.ec)
              /\ parentElement(doc, highlightWordRange.sc)
                    = parentElement(doc, highlightWordRange.ec)
              /\ CharsOf(doc, highlightWordRange) # {}
              /\ Length(doc, highlightWordRange.ec) = 0 =>
                    ~IsTextNode(doc, nextSibling(doc, highlightWordRange.ec))
              /\ (last.wordBranch /\ HitNonEmpty) =>
                    Length(doc, highlightWordRange.sc) > 0

\* The split word highlighted from a hit on its first letter: the range ends
\* in the empty text node after the last letter.
C17_Witness ==
    /\ MoveHandled /\ last.wordBranch /\ HitNonEmpty /\ doc = DocSplit
    /\ ~Collapsed(highlightWordRange)
    /\ Length(doc, highlightWordRange.ec) = 0
    /\ ~Collapsed(highlightLineRange)

\* Text node n is not empty and no element from it up to the body is without
\* a box: the scans of the line resolver reach it.
RECURSIVE BoxedUpToBody(_, _)
BoxedUpToBody(d, n) ==
    IsBody(d, n) \/ (occupiesSpace(d, n) /\ BoxedUpToBody(d, parentElement(d, n)))

\* The non-whitespace characters the scans can reach, in document order: c
\* comes before e.
Reachable(d) ==
    {c \in UNION {{<<n, i>> : i \in 0..(Length(d, n) - 1)} :
                    n \in {m \in Runs(d) : BoxedUpToBody(d, m)}} :
       ~isWhitespaceOrZeroWidth(CharAt(d, c[1], c[2]))}

Before(c, e) == After(e[1], e[2], c[1], c[2])

\* The characters after the end of r and before its start.
AfterEnd(d, r) == {c \in Reachable(d) : ~After(r.ec, r.eo, c[1], c[2])}

BeforeStart(d, r) == {c \in Reachable(d) : After(r.sc, r.so, c[1], c[2])}

\* The heuristic rejects character c against the running bounds of L.
Rejected(d, L, c) == ~ProbeSameLine(L, SingleCharRect(d, c[1], c[2])).isSameLine

\* C18: a line range that setHighlightLineRange leaves non-collapsed without
\* having used up the probe budget is maximal: the next non-whitespace
\* character after its end, if there is one, is rejected by the heuristic
\* against the final running bounds, and so is the previous non-whitespace
\* character before its start.
C18_LineIsMaximal ==
    (LineResolved /\ ~Collapsed(highlightLineRange)
     /\ highlightLineRange.linesSpannedChecks <= MAX_LINES_SPANNED_CHECKS) =>
        /\ \A c \in AfterEnd(doc, highlightLineRange) :
              (\A e \in AfterEnd(doc, highlightLineRange) : ~Before(e, c)) =>
                  Rejected(doc, highlightLineRange, c)
        /\ \A c \in BeforeStart(doc, highlightLineRange) :
              (\A e \in BeforeStart(doc, highlightLineRange) : ~Before(c, e)) =>
                  Rejected(doc, highlightLineRange, c)

\* The pointer of the dispatched event lies inside a rectangle of the word
\* range, and inside the bounding rectangle of the line range.
PointerInsideBoth ==
    /\ pending.kind = "pointermove"
    /\ closures \in pointermoveListeners
    /\ ~Collapsed(highlightWordRange)
    /\ \E rc \in SeqRange(getClientRects(doc, highlightWordRange)) :
          Contains(rc, pending.x, pending.y)
    /\ ~Collapsed(highlightLineRange)
    /\ Contains(getBoundingClientRect(doc, highlightLineRange),
                pending.x, pending.y)

\* C19: a pointermove event whose pointer lies inside the geometry of the
\* word range and inside the bounding rectangle of the line range makes the
\* handler run no hit-test and no resolution, and leaves both ranges as they
\* are.
C19_InsideBothSkipsResolution ==
    [][PointerInsideBoth =>
          /\ last'.op = "pointermove" /\ last'.handled
          /\ last'.hitTests = 0
          /\ ~last'.wordBranch /\ ~last'.lineBranch
          /\ highlightWordRange' = highlightWordRange
          /\ highlightLineRange' = highlightLineRange]_vars

\* The handler returned without a hit-test, word and line highlighted.
C19_Witness ==
    /\ MoveHandled /\ last.hitTests = 0
    /\ ~last.wordBranch /\ ~last.lineBranch
    /\ ~Collapsed(highlightWordRange) /\ ~Collapsed(highlightLineRange)

Max(a, b) == IF a > b THEN a ELSE b

\* The union and the intercept of the running bounds of L with the top and
\* bottom of rectangle rc, and the acceptance rule on their heights
\* (1.75 * a > b is 7 * a > 4 * b).
UnionHeight(L, rc) ==
    Max(L.manualBoundingRectBottom, rc.bottom)
        - Min(L.manualBoundingRectTop, rc.top)

InterceptHeight(L, rc) ==
    Min(L.manualBoundingRectBottom, rc.bottom)
        - Max(L.manualBoundingRectTop, rc.top)

AcceptedByRule(L, rc) ==
    /\ 7 * Min(L.minRectHeight, rc.bottom - rc.top) > 4 * UnionHeight(L, rc)
    /\ 7 * InterceptHeight(L, rc) > 4 * UnionHeight(L, rc)

\* The running bounds and minimum height of L.
Running(L) ==
    <<L.manualBoundingRectTop, L.manualBoundingRectBottom, L.minRectHeight>>

\* The line range as a resolution left it, with its probe counter at 0.
WithinBudget(L) == [L EXCEPT !.linesSpannedChecks = 0]

\* The line range as lines 447-461 leave it on the seed character of cp.
SeededOn(d, cp) ==
    LET seeded == setEnd(setStart(newCachedLineRange, cp.node,
                                  SeedOffset(d, cp)),
                         cp.node, SeedOffset(d, cp) + 1)
    IN  setInitialRect(seeded, getBoundingClientRect(d, seeded))

\* The rule applied to line range L and every character of the page.
RuleDecides(d, L) ==
    \A n \in Runs(d) : \A i \in 0..(Length(d, n) - 1) :
       LET rc == SingleCharRect(d, n, i)
           e  == tryToExpandEnd(d, L, n, i + 1)
           s  == tryToExpandStart(d, L, n, i)
           grown == <<Min(L.manualBoundingRectTop, rc.top),
                      Max(L.manualBoundingRectBottom, rc.bottom),
                      Min(L.minRectHeight, rc.bottom - rc.top)>>
       IN  /\ e.ok = AcceptedByRule(L, rc)
           /\ s.ok = AcceptedByRule(L, rc)
           /\ IF AcceptedByRule(L, rc)
              THEN /\ Running(e.L) = grown /\ Running(s.L) = grown
                   /\ e.L.ec = n /\ e.L.eo = i + 1
                   /\ s.L.sc = n /\ s.L.so = i
              ELSE /\ Running(e.L) = Running(L)
                   /\ Running(s.L) = Running(L)
                   /\ Boundaries(e.L) = Boundaries(L)
                   /\ Boundaries(s.L) = Boundaries(L)

\* C20: a probe within the budget accepts the character iff
\* 1.75 * min(running minimum height, character height) > union height and
\* 1.75 * intercept height > union height; tryToExpandEnd and
\* tryToExpandStart apply the same rule, an accepted character moves the
\* boundary and makes the union the running bounds, a rejected one changes
\* neither.  Checked from the running bounds of the seed character and from
\* those a resolution ends with.
C20_AcceptanceRule ==
    LineResolved =>
        /\ RuleDecides(doc, WithinBudget(highlightLineRange))
        /\ PassesSeedCheck(doc, pending.cp, pending.y) =>
              RuleDecides(doc, SeededOn(doc, pending.cp))

\* The lowered character alone: the letter before it passes the minimum
\* height test and fails the intercept test, the capital passes both.
C20_Witness ==
    /\ LineResolved /\ doc = DocStagger
    /\ Boundaries(highlightLineRange) = <<3, 2, 3, 3>>
    /\ ~AcceptedByRule(highlightLineRange, SingleCharRect(doc, 3, 1))
    /\ 7 * Min(highlightLineRange.minRectHeight, 2)
          > 4 * UnionHeight(highlightLineRange, SingleCharRect(doc, 3, 1))
    /\ AcceptedByRule(highlightLineRange, SingleCharRect(doc, 3, 0))

\* C21: for a hit Position (run r, offset o) with 0 <= o <= length(r) the
\* line seed is the character [s, s + 1) of r with s = min(o, length(r) - 1)
\* and 0 <= s < length(r): the resolution does not raise, a seed that fails
\* the seed check leaves the range collapsed at s + 1 in r, and a range that
\* is not collapsed holds the character s of r.
C21_SeedIsOneCharacter ==
    (LineResolved /\ IsTextCaret(doc, pending.cp)) =>
        LET r == pending.cp.node
            s == Min(pending.cp.offset, Length(doc, r) - 1)
            L == highlightLineRange
        IN  /\ 0 <= s /\ s < Length(doc, r)
            /\ ~last.threw
            /\ Collapsed(L) \/ <<r, s>> \in CharsOf(doc, L)
            /\ ~PassesSeedCheck(doc, pending.cp, pending.y) =>
                  Boundaries(L) = <<r, s + 1, r, s + 1>>

\* setHighlightLineRange runs in this step on a Position in a non-empty run
\* whose seed character fails the seed check.
SeedFailsInStep ==
    /\ last'.op = "setHighlightLineRange"
    /\ IsTextCaret(doc, pending.cp) /\ Length(doc, pending.cp.node) > 0
    /\ ~PassesSeedCheck(doc, pending.cp, pending.y)

\* C22: when the seed's bounding rectangle has zero height, or the pointer's
\* y is above its top or below its bottom, setHighlightLineRange leaves the
\* line range collapsed after the seed, with the probe counter and the
\* running bounds as they were before the call.
C22_FailedSeedCollapsesUntouched ==
    [][SeedFailsInStep =>
          /\ Collapsed(highlightLineRange')
          /\ Boundaries(highlightLineRange')
                = <<pending.cp.node, SeedOffset(doc, pending.cp) + 1,
                    pending.cp.node, SeedOffset(doc, pending.cp) + 1>>
          /\ highlightLineRange'.linesSpannedChecks
                = highlightLineRange.linesSpannedChecks
          /\ Running(highlightLineRange') = Running(highlightLineRange)]_vars

\* A failed seed after a resolution that counted probes and set bounds.
C22_Witness ==
    /\ LineResolved
    /\ IsTextCaret(doc, pending.cp) /\ Length(doc, pending.cp.node) > 0
    /\ ~PassesSeedCheck(doc, pending.cp, pending.y)
    /\ Collapsed(highlightLineRange)
    /\ highlightLineRange.linesSpannedChecks > 0
    /\ highlightLineRange.minRectHeight > 0

\* The client rectangles of the seed character of cp that occupy space.
SeedRectangles(d, cp) ==
    LET rects == d.text[cp.node][SeedOffset(d, cp) + 1].rects
    IN  {i \in 1..Len(rects) : rectOccupiesSpace(rects[i])}

\* setHighlightLineRange ran on a seed that passes the seed check and
\* reports more than one rectangle that occupies space.
SeedOnTwoLines ==
    /\ LineResolved /\ PassesSeedCheck(doc, pending.cp, pending.y)
    /\ Cardinality(SeedRectangles(doc, pending.cp)) > 1

Expanded == LineResolved /\ last.trace.rounds # <<>>

\* The characters from boundary point from up to boundary point to.
GrowthChars(d, from, to) ==
    IF from[1] = to[1]
    THEN {<<from[1], i>> : i \in from[2]..(to[2] - 1)}
    ELSE CharsOf(d, [sc |-> from[1], so |-> from[2],
                     ec |-> to[1], eo |-> to[2]])

\* The alternation as lines 474-488 order it: every round but the last had
\* both attempts succeed, the last one did not, the start was attempted in
\* every round in which a character was left before it, no attempt made more
\* than one probe, and a greedy call was made for a side exactly when its
\* attempt in the last round succeeded, so for one side at most.
AlternationOrder(d, tr) ==
    LET n == Len(tr.rounds)
    IN  /\ \A k \in 1..(n - 1) :
              tr.rounds[k].keepGoingEnd /\ tr.rounds[k].keepGoingStart
        /\ ~(tr.rounds[n].keepGoingEnd /\ tr.rounds[n].keepGoingStart)
        /\ \A k \in 1..n :
              LET rd == tr.rounds[k]
              IN  /\ rd.endProbes =
                        IF \E c \in Reachable(d) :
                              ~After(rd.endFrom[1], rd.endFrom[2], c[1], c[2])
                        THEN 1 ELSE 0
                  /\ rd.startProbes =
                        IF \E c \in Reachable(d) :
                              After(rd.startFrom[1], rd.startFrom[2],
                                    c[1], c[2])
                        THEN 1 ELSE 0
        /\ tr.greedyStart = tr.rounds[n].keepGoingStart
        /\ tr.greedyEnd = tr.rounds[n].keepGoingEnd
        /\ ~(tr.greedyStart /\ tr.greedyEnd)
        /\ ~tr.greedyStart => tr.greedyStartProbes = 0
        /\ ~tr.greedyEnd => tr.greedyEndProbes = 0

AllChars(d) ==
    UNION {{<<n, i>> : i \in 0..(Length(d, n) - 1)} : n \in Runs(d)}

\* The frame of a probe of L: on every character after its end by
\* tryToExpandEnd and on every character before its start by
\* tryToExpandStart.
ProbeFrame(d, L) ==
    /\ \A c \in {a \in AllChars(d) : ~After(L.ec, L.eo, a[1], a[2])} :
          LET rc == SingleCharRect(d, c[1], c[2])
              e  == tryToExpandEnd(d, L, c[1], c[2] + 1)
          IN  IF e.ok
              THEN /\ Boundaries(e.L) = <<L.sc, L.so, c[1], c[2] + 1>>
                   /\ Running(e.L)
                         = <<Min(L.manualBoundingRectTop, rc.top),
                             Max(L.manualBoundingRectBottom, rc.bottom),
                             Min(L.minRectHeight, rc.bottom - rc.top)>>
              ELSE Boundaries(e.L) = Boundaries(L)
                      /\ Running(e.L) = Running(L)
    /\ \A c \in {a \in AllChars(d) : After(L.sc, L.so, a[1], a[2])} :
          LET rc == SingleCharRect(d, c[1], c[2])
              s  == tryToExpandStart(d, L, c[1], c[2])
          IN  IF s.ok
              THEN /\ Boundaries(s.L) = <<c[1], c[2], L.ec, L.eo>>
                   /\ Running(s.L)
                         = <<Min(L.manualBoundingRectTop, rc.top),
                             Max(L.manualBoundingRectBottom, rc.bottom),
                             Min(L.minRectHeight, rc.bottom - rc.top)>>
              ELSE Boundaries(s.L) = Boundaries(L)
                      /\ Running(s.L) = Running(L)

\* C25: a rejected growth, by the heuristic or by the budget, leaves the
\* start and end of the line range, the running top and bottom and the
\* running minimum height unchanged; an accepted growth moves the end
\* (tryToExpandEnd) or the start (tryToExpandStart), and no other boundary,
\* to the probed position and commits the union bounds and the new minimum
\* height.  Checked from the line range on its seed, from the one a
\* resolution ends with, and from that one with the budget left.
C25_ProbeFrame ==
    LineResolved =>
        /\ ~Collapsed(highlightLineRange) =>
              /\ ProbeFrame(doc, highlightLineRange)
              /\ ProbeFrame(doc, WithinBudget(highlightLineRange))
        /\ PassesSeedCheck(doc, pending.cp, pending.y) =>
              ProbeFrame(doc, SeededOn(doc, pending.cp))

\* A range with the budget used up, whose next probe is refused while the
\* heuristic would accept the character, and a seed whose next character is
\* accepted.
C25_Witness ==
    /\ LineResolved /\ ~Collapsed(highlightLineRange)
    /\ highlightLineRange.linesSpannedChecks > MAX_LINES_SPANNED_CHECKS
    /\ \E c \in {a \in AllChars(doc) :
                   ~After(highlightLineRange.ec, highlightLineRange.eo,
                          a[1], a[2])} :
          /\ ~tryToExpandEnd(doc, highlightLineRange, c[1], c[2] + 1).ok
          /\ tryToExpandEnd(doc, WithinBudget(highlightLineRange),
                            c[1], c[2] + 1).ok
    /\ PassesSeedCheck(doc, pending.cp, pending.y)
    /\ tryToExpandStart(doc, SeededOn(doc, pending.cp), pending.cp.node,
                        SeedOffset(doc, pending.cp) - 1).ok

\* The non-empty text runs of the page that are in no element without a
\* box, and the nearest of them after and before node n in document order.
VisibleRuns(d) ==
    {m \in Runs(d) : Length(d, m) > 0 /\ BoxedUpToBody(d, m)}

NearestAfter(d, n) ==
    IF \E m \in VisibleRuns(d) : m > n
    THEN SetMin({m \in VisibleRuns(d) : m > n}) ELSE Null

NearestBefore(d, n) ==
    IF \E m \in VisibleRuns(d) : m < n
    THEN SetMax({m \in VisibleRuns(d) : m < n}) ELSE Null

\* The walks of the current script from every text run of the page that is
\* in no element without a box.
WalksFindNearest(d) ==
    \A n \in {m \in Runs(d) : BoxedUpToBody(d, m)} :
       /\ NextNodeWalk(d, n) = NearestAfter(d, n)
       /\ PreviousNodeWalk(d, n) = NearestBefore(d, n)

\* C26: the run an expansion goes on in after the current run is the nearest
\* non-empty text run in document order, following for the end and preceding
\* for the start, that is in no element without a box; no such run in
\* between is skipped.  Stated of the walks of the current script and of the
\* end walk of its earlier version.
C26_WalkFindsNearestRun ==
    /\ WalksFindNearest(doc)
    /\ \A n \in {m \in Runs(doc) : BoxedUpToBody(doc, m)} :
          NextNodeWalkMemo(doc, n) = NearestAfter(doc, n)

\* Node n and every ancestor of it below the body is the last (the first)
\* child of its parent: a walk from n finds no further sibling and no
\* ancestor's sibling before it reaches document.body.
RECURSIVE LastUpToBody(_, _)
LastUpToBody(d, n) ==
    IsBody(d, n)
    \/ (nextSibling(d, n) = Null /\ LastUpToBody(d, parentElement(d, n)))

RECURSIVE FirstUpToBody(_, _)
FirstUpToBody(d, n) ==
    IsBody(d, n)
    \/ (previousSibling(d, n) = Null /\ FirstUpToBody(d, parentElement(d, n)))

\* The expansion call with the scan at the end (the start) of run n returned
\* false, made no probe and left the line range as it was.
StoppedAtRoot(L, res) ==
    /\ res.done /\ ~res.ret
    /\ Boundaries(res.L) = Boundaries(L)
    /\ res.L.linesSpannedChecks = L.linesSpannedChecks
    /\ Running(res.L) = Running(L)

\* C27: an expansion call whose tree walk reaches document.body without
\* finding a further sibling or ancestor's sibling returns false and leaves
\* the boundaries of the line range as they were, from every text run of the
\* page, at the end and at the start, for one character and greedily.
C27_RootStopsExpansion ==
    \A n \in Runs(doc) : \A oneChar \in BOOLEAN :
       /\ LastUpToBody(doc, n) =>
             StoppedAtRoot(highlightLineRange,
                           LineEndScan(doc, highlightLineRange, n,
                                       Length(doc, n), oneChar))
       /\ FirstUpToBody(doc, n) =>
             StoppedAtRoot(highlightLineRange,
                           LineStartScan(doc, highlightLineRange, n, 0,
                                         oneChar))

\* A resolution that reached document.body on both sides: the range starts
\* in a run with nothing before it and ends in a run with nothing after it,
\* and the last round made no probe and failed at the start.
C27_Witness ==
    /\ Expanded /\ ~Collapsed(highlightLineRange)
    /\ FirstUpToBody(doc, highlightLineRange.sc)
    /\ highlightLineRange.so = 0
    /\ LastUpToBody(doc, highlightLineRange.ec)
    /\ highlightLineRange.eo = Length(doc, highlightLineRange.ec)
    /\ LET rd == last.trace.rounds[Len(last.trace.rounds)]
       IN  ~rd.keepGoingStart /\ rd.startProbes = 0

\* C28: an invocation of pointerMoveHandler runs the hit-test at most once:
\* once when the word branch or the line branch runs, the line branch using
\* the answer the word branch got, a null answer included, and not at all
\* when both are skipped.
C28_OneHitTestPerMove ==
    MoveHandled =>
        /\ last.hitTests <= 1
        /\ last.hitTests =
              IF last.wordBranch \/ last.lineBranch THEN 1 ELSE 0

\* Both branches ran on a null answer of the hit-test.
C28_Witness ==
    /\ MoveHandled /\ last.wordBranch /\ last.lineBranch
    /\ last.caretPosition = NoCaret /\ last.hitTests = 1

\* The cache of the line range of part_002 is empty or holds the bounding
\* rectangle of the range as the page lays it out now.
CacheFresh(d, M) ==
    M.boundingClientRect \in {NoRect, getBoundingClientRect(d, M)}

\* C29: in the memoizing line range (part_002) setStart, setEnd and collapse
\* each leave the cache empty, the cache a pointer-move handler leaves behind
\* is fresh, and no call of getBoundingClientRect during a handler returned
\* a cached rectangle other than the bounding rectangle of the range's
\* boundaries at that call, also when the page was scrolled between events.
C29_CacheNeverStale ==
    /\ highlightLineRange.staleHits = 0
    /\ last.op # "scroll" => CacheFresh(doc, highlightLineRange)
    /\ collapseMemo(highlightLineRange).boundingClientRect = NoRect
    /\ \A n \in Runs(doc) : \A o \in 0..Length(doc, n) :
          /\ setStartMemo(highlightLineRange, n, o).boundingClientRect = NoRect
          /\ setEndMemo(highlightLineRange, n, o).boundingClientRect = NoRect

\* C29 witness: a pointermove event is about to be handled with a cache that
\* a scroll made stale, and the line check for it returns cached rectangles,
\* all of them fresh.
C29_Witness ==
    /\ pending.kind = "pointermove"
    /\ last.op = "scroll"
    /\ ~CacheFresh(doc, highlightLineRange)
    /\ LET r == LineCheckMemo(doc,
                    [highlightLineRange EXCEPT !.cacheHits = 0,
                                               !.staleHits = 0],
                    pending.x, pending.y, pending.cp)
       IN  r.L.cacheHits > 0 /\ r.L.staleHits = 0

\* Every character of the page has one rectangle, with positive width and
\* height, and every element has a box.
WellFormedText(d) ==
    /\ \A n \in Nodes(d) : d.occ[n]
    /\ \A c \in AllChars(d) :
          /\ Len(d.text[c[1]][c[2] + 1].rects) = 1
          /\ rectOccupiesSpace(SingleCharRect(d, c[1], c[2]))

\* A well-formed page in one font size: two characters are on the same line,
\* with the same top and bottom, or on lines that do not overlap.
Uniform(d) ==
    /\ WellFormedText(d)
    /\ \A v1, v2 \in {<<SingleCharRect(d, c[1], c[2]).top,
                         SingleCharRect(d, c[1], c[2]).bottom>> :
                          c \in AllChars(d)} :
          v1 = v2 \/ v1[2] <= v2[1] \/ v2[2] <= v1[1]

Probed(d) ==
    {c \in AllChars(d) : ~isWhitespaceOrZeroWidth(CharAt(d, c[1], c[2]))}

\* The character the end scan probes next from range L, and the one the
\* start scan probes next, on a page whose elements all have boxes.
NextEndProbe(d, L) ==
    {c \in Probed(d) :
       /\ ~After(L.ec, L.eo, c[1], c[2])
       /\ \A c2 \in Probed(d) :
             ~After(L.ec, L.eo, c2[1], c2[2])
                 => ~After(c[1], c[2], c2[1], c2[2])}

NextStartProbe(d, L) ==
    {c \in Probed(d) :
       /\ After(L.sc, L.so, c[1], c[2])
       /\ \A c2 \in Probed(d) :
             After(L.sc, L.so, c2[1], c2[2])
                 => ~After(c2[1], c2[2], c[1], c[2])}

\* The line range of part_002 on the boundaries of L, its cache empty and
\* its probe counter at 0.
MemoOf(L) ==
    [newCachedLineRangeMemo EXCEPT !.sc = L.sc, !.so = L.so,
                                   !.ec = L.ec, !.eo = L.eo]

\* The decisions of the two strategies on the next probe of each scan from
\* L: tryToExpandEnd/Start of part_001 from the running bounds of L, and of
\* part_002 with the flag checkRectangleGrew as its scans pass it.
RunningAcceptsEnd(d, L, c) ==
    tryToExpandEnd(d, WithinBudget(L), c[1], c[2] + 1).ok

RecomputeAcceptsEnd(d, L, c) ==
    tryToExpandEndMemo(d, MemoOf(L), c[1], c[2] + 1, c[1] # L.ec).ok

RunningAcceptsStart(d, L, c) ==
    tryToExpandStart(d, WithinBudget(L), c[1], c[2]).ok

RecomputeAcceptsStart(d, L, c) ==
    tryToExpandStartMemo(d, MemoOf(L), c[1], c[2],
                         c[1] # L.sc /\ c[2] = Length(d, c[1]) - 1).ok

SameDecision(d, L) ==
    /\ \A c \in NextEndProbe(d, L) :
          RunningAcceptsEnd(d, L, c) = RecomputeAcceptsEnd(d, L, c)
    /\ \A c \in NextStartProbe(d, L) :
          RunningAcceptsStart(d, L, c) = RecomputeAcceptsStart(d, L, c)

\* The two strategies decide alike on the next probes from the seed
\* character of the resolved hit and from the range the resolution ended
\* with.
SameDecisions ==
    /\ ~Collapsed(highlightLineRange) => SameDecision(doc, highlightLineRange)
    /\ PassesSeedCheck(doc, pending.cp, pending.y) =>
          SameDecision(doc, SeededOn(doc, pending.cp))

\* Two line ranges highlight the same text: both nothing, or both the text
\* between the same boundaries.
SameLine(M, L) ==
    /\ Collapsed(M) = Collapsed(L)
    /\ ~Collapsed(L) => Boundaries(M) = Boundaries(L)

\* C30 as stated: on every well-formed page the running-bounds strategy
\* (factor 1.75) and the recompute strategy (factor 1.73 and the rectangle
\* grew check) accept the same candidate growths.
C30_SameDecisionWellFormed ==
    LineResolved /\ WellFormedText(doc) => SameDecisions

\* C30 amended: the two strategies accept the same candidate growths on
\* well-formed pages in one font size whose lines do not overlap, and there
\* the line resolvers of the two versions end on the same boundaries when
\* the resolution stayed within the smaller probe budget.
C30_SameDecisionUniform ==
    LineResolved /\ Uniform(doc) =>
        /\ SameDecisions
        /\ highlightLineRange.linesSpannedChecks <= MAX_LINES_SPANNED_CHECKS
              => SameLine(setHighlightLineRangeMemo(
                              doc, newCachedLineRangeMemo,
                              pending.cp, pending.y).L,
                          highlightLineRange)

\* C30 witness: on a page in one font size a line was resolved; from its
\* seed both strategies accept the next character, and from the resolved
\* line both reject the first character of the next line.
C30_Witness ==
    /\ LineResolved /\ Uniform(doc) /\ ~Collapsed(highlightLineRange)
    /\ \E c \in NextEndProbe(doc, SeededOn(doc, pending.cp)) :
          /\ RunningAcceptsEnd(doc, SeededOn(doc, pending.cp), c)
          /\ RecomputeAcceptsEnd(doc, SeededOn(doc, pending.cp), c)
    /\ \E c \in NextEndProbe(doc, highlightLineRange) :
          /\ ~RunningAcceptsEnd(doc, highlightLineRange, c)
          /\ ~RecomputeAcceptsEnd(doc, highlightLineRange, c)

\* Every invocation of the onClicked listener has completed.
AllHandlersDone ==
    \A h \in DOMAIN worker.handlers : worker.handlers[h].pc = "done"

\* The tab shows ON and has the stylesheet exactly if the page has the
\* activation marker.
TabShowsPageState ==
    /\ tab.badgeText = "ON" <=> hoverHighlighterInfo # Null
    /\ tab.title = "Hover Highlighter (ON)" <=> hoverHighlighterInfo # Null
    /\ tab.css <=> hoverHighlighterInfo # Null

\* C31: after any clicks on one tab, also clicks whose listener invocations
\* interleave, once all invocations have completed the tab's badge text and
\* title show ON exactly if the page has the activation marker, and the
\* stylesheet is inserted exactly if it has.
C31_TabShowsPageState == AllHandlersDone => TabShowsPageState

\* The delimiters as the claim lists them.
ListedDelimiters ==
    WhitespaceChars \cup
        {"_", "-", "endash", "emdash", "/", "(", ")", "{", "}", "[", "]",
         ",", ".", ":", ";", "?", "!", "ellipsis"}

\* For the classified character, isWordChar is the negation of isDelimiter
\* and isDelimiter holds exactly for the listed delimiters.
ClassifiedAsListed ==
    /\ last.isWordChar = ~last.isDelimiter
    /\ last.isDelimiter = (last.char \in ListedDelimiters)

\* C32: for every single character, in both versions of the script,
\* isWordChar is the negation of isDelimiter, and isDelimiter holds exactly
\* for whitespace, '_', '-', the en dash, the em dash, '/', the brackets
\* '(' ')' '{' '}' '[' ']', ',', '.', ':', ';', '?', '!' and the ellipsis.
C32_DelimiterPartition ==
    last.op = "classify" => ClassifiedAsListed

\* The identifiers registered in CSS.highlights.
RegisteredKeys == {highlights[k].key : k \in DOMAIN highlights}

\* C33: after any runs of the script, also activations whose
\* window.hoverHighlighterArgs is partial or missing, the pointermove and
\* pointerleave listeners are installed exactly if the marker is present,
\* both highlight identifiers are registered exactly if it is present, and
\* at most one listener of each kind is installed.
C33_ListenersFollowMarker ==
    /\ pointermoveListeners # {} <=> hoverHighlighterInfo # Null
    /\ pointerleaveListeners # {} <=> hoverHighlighterInfo # Null
    /\ RegisteredKeys =
          IF hoverHighlighterInfo # Null
          THEN {CSS_HIGHLIGHT_LINE_KEY, CSS_HIGHLIGHT_WORD_KEY} ELSE {}
    /\ Cardinality(pointermoveListeners) <= 1
    /\ Cardinality(pointerleaveListeners) <= 1

\* Position a is at or before position b in document order.
AtOrBefore(a, b) == ~After(a[1], a[2], b[1], b[2])

\* The boundaries through the rounds of a resolution seeded on [s, s + 1)
\* of node n that ended with range L: each round sets out where the one
\* before ended, the end goes forward only and the start backward only, in
\* the rounds and in the greedy calls after them.
BoundariesMoveOutward(tr, n, s, L) ==
    LET m == Len(tr.rounds)
    IN  /\ tr.rounds[1].endFrom = <<n, s + 1>>
        /\ tr.rounds[1].startFrom = <<n, s>>
        /\ \A k \in 1..m :
              /\ AtOrBefore(tr.rounds[k].endFrom, tr.rounds[k].endTo)
              /\ AtOrBefore(tr.rounds[k].startTo, tr.rounds[k].startFrom)
        /\ \A k \in 1..(m - 1) :
              /\ tr.rounds[k + 1].endFrom = tr.rounds[k].endTo
              /\ tr.rounds[k + 1].startFrom = tr.rounds[k].startTo
        /\ ~Collapsed(L) =>
              /\ AtOrBefore(tr.rounds[m].endTo, <<L.ec, L.eo>>)
              /\ AtOrBefore(<<L.sc, L.so>>, tr.rounds[m].startTo)

\* C34: during one line resolution the start boundary only moves backward
\* and the end boundary only moves forward in document order, and a
\* non-collapsed line range that setHighlightLineRange produced from the
\* seed character [s, s + 1) contains that character.
C34_SeedStaysInside ==
    LineResolved =>
        /\ Expanded =>
              BoundariesMoveOutward(last.trace, pending.cp.node,
                                    SeedOffset(doc, pending.cp),
                                    highlightLineRange)
        /\ ~Collapsed(highlightLineRange) =>
              /\ IsTextCaret(doc, pending.cp)
              /\ AtOrBefore(<<highlightLineRange.sc, highlightLineRange.so>>,
                            <<pending.cp.node, SeedOffset(doc, pending.cp)>>)
              /\ AtOrBefore(<<pending.cp.node,
                              SeedOffset(doc, pending.cp) + 1>>,
                            <<highlightLineRange.ec, highlightLineRange.eo>>)

\* C34 witness: a resolution of several rounds that moved both boundaries
\* and ended on a range that is not collapsed.
C34_Witness ==
    /\ Expanded /\ ~Collapsed(highlightLineRange)
    /\ Len(last.trace.rounds) > 1
    /\ After(pending.cp.node, SeedOffset(doc, pending.cp),
             highlightLineRange.sc, highlightLineRange.so)
    /\ After(highlightLineRange.ec, highlightLineRange.eo,
             pending.cp.node, SeedOffset(doc, pending.cp) + 1)

\* Running bounds <<top, bottom, minimum height>>: 1.75 times the minimum
\* height exceeds the height of the bounds.
HeightBound(b) == 7 * b[3] > 4 * (b[2] - b[1])

\* From running bounds a to running bounds b the top has not increased, the
\* bottom has not decreased and the minimum height has not increased.
Widened(a, b) == b[1] <= a[1] /\ b[2] >= a[2] /\ b[3] <= a[3]

\* The running bounds after the end attempt and after the start attempt of
\* every round, in order, from those of the seed to those the resolution
\* ended with.
BoundsSequence(seed, tr, L) ==
    <<Running(seed)>>
        \o [j \in 1..(2 * Len(tr.rounds)) |->
              IF j % 2 = 1 THEN tr.rounds[(j + 1) \div 2].endBounds
              ELSE tr.rounds[j \div 2].startBounds]
        \o <<Running(L)>>

\* Every probe from range L, accepted or rejected, leaves running bounds
\* that keep the height bound and are those of L, widened.
ProbesKeepBound(d, L) ==
    \A c \in AllChars(d) :
       LET e == tryToExpandEnd(d, WithinBudget(L), c[1], c[2] + 1)
           s == tryToExpandStart(d, WithinBudget(L), c[1], c[2])
       IN  /\ HeightBound(Running(e.L)) /\ Widened(Running(L), Running(e.L))
           /\ HeightBound(Running(s.L)) /\ Widened(Running(L), Running(s.L))
           /\ ~e.ok => Running(e.L) = Running(L)
           /\ ~s.ok => Running(s.L) = Running(L)

\* C35: throughout a line expansion, after setInitialRect and after every
\* accepted or rejected probe, 1.75 * minRectHeight exceeds the height of
\* the running bounds; across accepted probes the top never increases, the
\* bottom never decreases and minRectHeight never increases.
C35_RunningBoundsInvariant ==
    LineResolved /\ PassesSeedCheck(doc, pending.cp, pending.y) =>
        LET seed == SeededOn(doc, pending.cp)
            bs == BoundsSequence(seed, last.trace, highlightLineRange)
        IN  /\ \A j \in 1..Len(bs) : HeightBound(bs[j])
            /\ \A j \in 1..(Len(bs) - 1) : Widened(bs[j], bs[j + 1])
            /\ ProbesKeepBound(doc, seed)
            /\ ProbesKeepBound(doc, highlightLineRange)

\* C35 witness: an expansion in which accepted probes raised the bottom or
\* lowered the minimum height, and from whose result one probe is accepted
\* and another rejected.
C35_Witness ==
    /\ Expanded /\ PassesSeedCheck(doc, pending.cp, pending.y)
    /\ LET seed == SeededOn(doc, pending.cp)
       IN  \/ highlightLineRange.manualBoundingRectBottom
                 > seed.manualBoundingRectBottom
           \/ highlightLineRange.minRectHeight < seed.minRectHeight
    /\ \E c \in AllChars(doc) :
          tryToExpandEnd(doc, WithinBudget(highlightLineRange),
                         c[1], c[2] + 1).ok
    /\ \E c \in AllChars(doc) :
          ~tryToExpandEnd(doc, WithinBudget(highlightLineRange),
                          c[1], c[2] + 1).ok

\* The characters of the page whose rectangle has no height.
Flat(d) ==
    {c \in AllChars(d) : Height(SingleCharRect(d, c[1], c[2])) = 0}

\* Running bounds of every shape, proper or not, on line range L.
AnyBounds(L) ==
    {[L EXCEPT !.manualBoundingRectTop = t, !.manualBoundingRectBottom = b,
               !.minRectHeight = m, !.linesSpannedChecks = 0] :
       t \in 0..MaxY, b \in 0..MaxY, m \in 0..MaxY}

\* A probe of a character without height is rejected from L, whatever its
\* running bounds are.
FlatRejected(d, L) ==
    \A c \in Flat(d) : \A B \in AnyBounds(L) :
       /\ ~tryToExpandEnd(d, B, c[1], c[2] + 1).ok
       /\ ~tryToExpandStart(d, B, c[1], c[2]).ok

\* The characters the scans probe: not whitespace or zero-width, in a text
\* node whose ancestors all have boxes.
ProbedByScans(d) ==
    {c \in Probed(d) : c[1] \in VisibleRuns(d)}

ClickStep == Len(worker'.handlers) = Len(worker.handlers) + 1

\* C37: a click on a tab whose URL starts with 'chrome://' has no effect:
\* the invocation of the listener is over at once with no script injected,
\* the page's activation state, listeners, highlights and style properties
\* are as before, and so are the tab's badge text, title and inserted CSS;
\* on such a tab no invocation is ever in progress.
C37_ChromeTabUntouched ==
    [][startsWithChrome(tab.url) =>
          /\ \A h \in DOMAIN worker.handlers : worker.handlers[h].pc = "done"
          /\ ClickStep =>
                /\ worker'.handlers[Len(worker'.handlers)].pc = "done"
                /\ worker'.handlers[Len(worker'.handlers)].calls = {}
                /\ tab' = tab
                /\ UNCHANGED <<doc, highlightWordRange, highlightLineRange,
                               closures, hoverHighlighterInfo,
                               pointermoveListeners, pointerleaveListeners,
                               highlights, styleProperties>>]_vars

\* C37 witness: the button was clicked on a chrome:// tab, more than once.
C37_Witness ==
    /\ startsWithChrome(tab.url)
    /\ last.op = "click"
    /\ Len(worker.handlers) > 1
    /\ tab = FreshTab(tab.url) /\ closures = 0

====
